---- MODULE Spec2Model ----
(***************************************************************************)
(* Ingestion pipeline of the South Korea Law MCP server:                   *)
(*   - the rate-limited fetch client (rateLimit, fetchWithRateLimit),      *)
(*   - the discovery phase of ingestion (discoverLaws, parseLawList),      *)
(*   - the content phase of ingestion (fetchAndParseLaws, parseLawXml),    *)
(*   - provision deduplication of the index builder (dedupeProvisions),    *)
(*   - the index builder (buildDatabase, writeMetadata, finalizeDb),       *)
(*   - the update checker (check-updates: fetchRecentEntries, main),       *)
(*   - fetch client calls that overlap (rateLimit entered concurrently),   *)
(*   - ingestion, build and update check run one after the other.          *)
(* Each part has its own specification over its own group of variables;    *)
(* the variables of the other groups stay at their initial values.         *)
(***************************************************************************)
EXTENDS Integers, Sequences, FiniteSets, TLC

VARIABLES
    \* ---- fetch client ----
    now,              \* the clock read by Date.now(), in ms
    lastRequestTime,  \* module variable of the fetch client
    fpc,              \* position of the fetchWithRateLimit call
    attempt,          \* loop variable of fetchWithRateLimit
    maxRetries,       \* argument of fetchWithRateLimit
    wakeAt,           \* deadline of the pending setTimeout
    result,           \* what the call gave its caller
    stamp,            \* lastRequestTime as written by this call's rateLimit()
    prevStamp,        \* the same for the call before
    reqStarts,        \* start times of the HTTP requests of this call
    responses,        \* statuses received by this call, in order
    waits,            \* backoff sleeps of this call, in order
    ncalls,           \* calls started so far
    lastSent,         \* start time of the latest HTTP request sent
    \* ---- overlapping calls of the fetch client ----
    tpc,              \* position of each overlapping call
    tenter,           \* when each call entered rateLimit()
    tbase,            \* lastRequestTime as each call read it in rateLimit()
    twake,            \* deadline of each call's setTimeout in rateLimit()
    tsent,            \* when each call's HTTP request started
    \* ---- discovery phase (discoverLaws) ----
    dpc,              \* position in discoverLaws
    qi,               \* index of the current query in KEY_LAW_QUERIES
    page,             \* page to request next for the current query
    allEntries,       \* entries accumulated over all pages and queries
    indexFile,        \* content of law-index.json
    cumulative,       \* entries seen so far for the current query
    lastList,         \* the LawListResult of the page parsed last (sizes only)
    \* ---- content phase (main, fetchAndParseLaws) ----
    cpc,              \* position of the ingestion run
    runs,             \* ingestion runs started so far
    laws,             \* toProcess of the current run
    pos,              \* index in toProcess of the entry handled next
    processed,        \* counters of fetchAndParseLaws
    skipped,
    failed,
    totalProvisions,
    seedFiles,        \* data/seed/<lawId>.json: its content, or NoSeed
    stubs,            \* lawIds whose seed file was written by the 404 branch
    fetchCalls,       \* fetchLawDetail calls made by the current run
    last,             \* the entry handled last and what happened to it
    failedIn,         \* per lawId: the last run that counted it failed and
                      \* wrote no seed for it (0: none)
    outcomes,         \* per lawId: what the current run did with its entry
    \* ---- provision deduplication (dedupeProvisions) ----
    provisions,       \* argument of dedupeProvisions
    di,               \* index of the provision the loop handles next
    byRef,            \* the Map byRef: its values, in insertion order
    \* ---- index builder (buildDatabase) ----
    bpc,              \* position in buildDatabase
    seedDir,          \* data/seed: whether it exists, and its seed files
    bi,               \* index of the seed file loadAll handles next
    tx,               \* rows inserted by the open transaction of loadAll
    db,               \* data/database.db: the committed rows and the modes
    ops,              \* pragmas and statements run on the store, in order
    before,           \* the store file as it was when the build started
    faults,           \* what threw during the load, and at which file
    \* ---- update checker (check-updates) ----
    kpc,              \* position in main
    localStore,       \* what is at DB_PATH
    indexReadable,    \* whether the cached index, if any, parses
    localDocs,        \* ids read from legal_documents
    kq,               \* index of the query fetchRecentEntries asks next
    recentEntries,    \* entries collected by fetchRecentEntries
    nonOk,            \* queries whose listing came back with another status
    newLaws,          \* the hits reported as new
    exitCode,         \* exit code of the process
    failure,          \* why the check itself failed, if it did
    \* ---- ingestion, build and check run one after the other ----
    upstream,         \* what upstream serves: listings by term, laws by lawId
    pipePc,           \* which of the three programs has run
    pipeIndex,        \* law-index.json as the ingestion wrote it
    pipeAnswers,      \* status of the detail request of each index entry
    pipeSeeds,        \* the seed files the ingestion wrote
    pipeBuilt,        \* whether the build ended without exception
    pipeStore,        \* ids of legal_documents after the build
    pipeNew,          \* newLaws of the check
    pipeExit          \* exit code of the check

fetchVars == <<now, lastRequestTime, fpc, attempt, maxRetries, wakeAt, result,
               stamp, prevStamp, reqStarts, responses, waits, ncalls,
               lastSent>>

discVars == <<dpc, qi, page, allEntries, indexFile, cumulative, lastList>>

contVars == <<cpc, runs, laws, pos, processed, skipped, failed, totalProvisions,
              seedFiles, stubs, fetchCalls, last, failedIn, outcomes>>

dedVars == <<provisions, di, byRef>>

buildVars == <<bpc, seedDir, bi, tx, db, ops, faults, before>>

checkVars == <<kpc, localStore, indexReadable, localDocs, kq, recentEntries,
               nonOk, newLaws, exitCode, failure>>

overlapVars == <<tpc, tenter, tbase, twake, tsent>>

pipeVars == <<upstream, pipePc, pipeIndex, pipeAnswers, pipeSeeds, pipeBuilt,
              pipeStore, pipeNew, pipeExit>>

vars == <<fetchVars, overlapVars, discVars, contVars, dedVars, buildVars,
          checkVars, pipeVars>>

\* What the steps of one part leave alone: the variables of the other parts.
FetchOnly == UNCHANGED <<pipeVars, overlapVars, discVars, contVars, dedVars, buildVars, checkVars>>
DiscOnly == UNCHANGED <<pipeVars, overlapVars, fetchVars, contVars, dedVars, buildVars, checkVars>>
ContOnly == UNCHANGED <<pipeVars, overlapVars, fetchVars, discVars, dedVars, buildVars, checkVars>>
DedOnly == UNCHANGED <<pipeVars, overlapVars, fetchVars, discVars, contVars, buildVars, checkVars>>
\* (no step of the build changes the record of the store it started from)
BuildOnly ==
    UNCHANGED <<pipeVars, overlapVars, fetchVars, discVars, contVars, dedVars,
                checkVars, before>>
CheckOnly == UNCHANGED <<pipeVars, overlapVars, fetchVars, discVars, contVars, dedVars, buildVars>>

\* ------------------------------------------------------------------------
\* Bounds of the model
\* ------------------------------------------------------------------------
MaxCalls == 2
MaxRetriesBound == 2
\* Number of search terms of KEY_LAW_QUERIES the model walks through.
NumQueries == 1
\* Number of ingestion runs, one after the other, over the same seed directory.
MaxRuns == 2
\* Longest provision list given to dedupeProvisions.
MaxProvisions == 3
\* Most seed files in the seed directory of a build.
MaxSeeds == 3
\* Number of search terms of KEY_QUERIES the update checker asks.
NumKeyQueries == 2
\* Number of fetchWithRateLimit calls started without awaiting one another.
MaxCallers == 3

\* ------------------------------------------------------------------------
\* Fetch client
\* ------------------------------------------------------------------------
MIN_DELAY_MS == 500

NoTime == 0 - 1
NoResult == [kind |-> "none", status |-> 0]

\* Statuses upstream answers with; 429 and 503 are the retried ones.
Statuses == {200, 404, 429, 503}
\* Time the caller spends between two calls, network latency of a response,
\* and how late after its deadline a timer fires (never early).
Gaps == {0, 600}
Latencies == {100}
TimerLate == {0, 20}

\* if (response.status === 429 || response.status >= 500)
IsRetryStatus(st) == st = 429 \/ st >= 500

\* if (attempt < maxRetries)
ShouldRetry(st, att, mr) == IsRetryStatus(st) /\ att < mr

\* const backoff = Math.pow(2, attempt + 1) * 1000
BackoffMutant(att) == 2 * 1000
Backoff(att) == (2 ^ (att + 1)) * 1000

\* rateLimit(): the sleep it asks for, given elapsed = now - lastRequestTime
ThrottleDelayMutant(elapsed) == IF elapsed < MIN_DELAY_MS THEN elapsed ELSE 0
ThrottleDelay(elapsed) ==
    IF elapsed < MIN_DELAY_MS THEN MIN_DELAY_MS - elapsed ELSE 0

\* The for loop's head, entered with loop variable att: one more fetch() when
\* att <= maxRetries, else the throw after the loop.
LoopHead(att, t) ==
    IF att <= maxRetries'
    THEN /\ fpc' = "request"
         /\ reqStarts' = Append(IF att = 0 THEN <<>> ELSE reqStarts, t)
         /\ lastSent' = t
         /\ result' = NoResult
    ELSE /\ fpc' = "thrown"
         /\ reqStarts' = IF att = 0 THEN <<>> ELSE reqStarts
         /\ lastSent' = lastSent
         /\ result' = [kind |-> "thrown", status |-> 0]

FetchStart ==
    /\ now = 2 * MIN_DELAY_MS
    /\ lastRequestTime = 0
    /\ fpc = "idle"
    /\ attempt = 0
    /\ maxRetries = 0
    /\ wakeAt = NoTime
    /\ result = NoResult
    /\ stamp = NoTime
    /\ prevStamp = NoTime
    /\ reqStarts = <<>>
    /\ responses = <<>>
    /\ waits = <<>>
    /\ ncalls = 0
    /\ lastSent = NoTime

CallOver == fpc \in {"idle", "returned", "thrown"}

\* fetchWithRateLimit(url, mr) is called and rateLimit() finds that the
\* minimum delay has passed: no sleep, lastRequestTime is set and the loop
\* is entered.
CallNoWait(mr, gap) ==
    /\ FetchOnly
    /\ CallOver
    /\ ncalls < MaxCalls
    /\ ThrottleDelay((now + gap) - lastRequestTime) = 0
    /\ now' = now + gap
    /\ lastRequestTime' = now'
    /\ maxRetries' = mr
    /\ attempt' = 0
    /\ wakeAt' = NoTime
    /\ prevStamp' = stamp
    /\ stamp' = now'
    /\ responses' = <<>>
    /\ waits' = <<>>
    /\ ncalls' = ncalls + 1
    /\ LoopHead(0, now')

\* fetchWithRateLimit(url, mr) is called and rateLimit() sleeps.
CallThrottled(mr, gap) ==
    /\ FetchOnly
    /\ CallOver
    /\ ncalls < MaxCalls
    /\ ThrottleDelay((now + gap) - lastRequestTime) > 0
    /\ now' = now + gap
    /\ wakeAt' = now' + ThrottleDelay(now' - lastRequestTime)
    /\ fpc' = "throttle"
    /\ maxRetries' = mr
    /\ attempt' = 0
    /\ prevStamp' = stamp
    /\ stamp' = NoTime
    /\ result' = NoResult
    /\ reqStarts' = <<>>
    /\ responses' = <<>>
    /\ waits' = <<>>
    /\ ncalls' = ncalls + 1
    /\ UNCHANGED <<lastRequestTime, lastSent>>

\* The sleep of rateLimit() ends: lastRequestTime = Date.now(), and the loop
\* is entered.
ThrottleWake(late) ==
    /\ FetchOnly
    /\ fpc = "throttle"
    /\ now' = wakeAt + late
    /\ lastRequestTime' = now'
    /\ stamp' = now'
    /\ wakeAt' = NoTime
    /\ UNCHANGED <<attempt, maxRetries, prevStamp, responses, waits, ncalls>>
    /\ LoopHead(0, now')

\* A response with a retried status arrives while retries are left: the call
\* sleeps for the backoff.
ResponseRetry(st, lat) ==
    /\ FetchOnly
    /\ fpc = "request"
    /\ ShouldRetry(st, attempt, maxRetries)
    /\ now' = now + lat
    /\ responses' = Append(responses, st)
    /\ waits' = Append(waits, Backoff(attempt))
    /\ wakeAt' = now' + Backoff(attempt)
    /\ fpc' = "backoff"
    /\ UNCHANGED <<lastRequestTime, attempt, maxRetries, result, stamp,
                   prevStamp, reqStarts, ncalls, lastSent>>

\* Any other response: the body is read and the result returned.
ResponseReturn(st, lat) ==
    /\ FetchOnly
    /\ fpc = "request"
    /\ ~ShouldRetry(st, attempt, maxRetries)
    /\ now' = now + lat
    /\ responses' = Append(responses, st)
    /\ result' = [kind |-> "returned", status |-> st]
    /\ fpc' = "returned"
    /\ UNCHANGED <<lastRequestTime, attempt, maxRetries, wakeAt, stamp,
                   prevStamp, reqStarts, waits, ncalls, lastSent>>

\* fetch() rejects (no response at all): the call rejects with it.
NetworkError(lat) ==
    /\ FetchOnly
    /\ fpc = "request"
    /\ now' = now + lat
    /\ result' = [kind |-> "thrown", status |-> 0]
    /\ fpc' = "thrown"
    /\ UNCHANGED <<lastRequestTime, attempt, maxRetries, wakeAt, stamp,
                   prevStamp, reqStarts, responses, waits, ncalls,
                   lastSent>>

\* The backoff sleep ends: continue, attempt++, loop head.
BackoffWake(late) ==
    /\ FetchOnly
    /\ fpc = "backoff"
    /\ now' = wakeAt + late
    /\ attempt' = attempt + 1
    /\ wakeAt' = NoTime
    /\ UNCHANGED <<lastRequestTime, maxRetries, stamp, prevStamp, responses,
                   waits, ncalls>>
    /\ LoopHead(attempt', now')

FetchNext ==
    \/ \E mr \in 0..MaxRetriesBound, gap \in Gaps : CallNoWait(mr, gap)
    \/ \E mr \in 0..MaxRetriesBound, gap \in Gaps : CallThrottled(mr, gap)
    \/ \E late \in TimerLate : ThrottleWake(late)
    \/ \E st \in Statuses, lat \in Latencies : ResponseRetry(st, lat)
    \/ \E st \in Statuses, lat \in Latencies : ResponseReturn(st, lat)
    \/ \E lat \in Latencies : NetworkError(lat)
    \/ \E late \in TimerLate : BackoffWake(late)

\* ------------------------------------------------------------------------
\* Fetch client, calls that overlap
\* ------------------------------------------------------------------------
\* fetchWithRateLimit is called several times without awaiting the call
\* before. JavaScript runs each call up to its next await in one piece, so
\* rateLimit() is two steps: from its entry to the setTimeout (or to its end,
\* when it does not sleep), and from the timer to its end, where the request
\* of the call is sent at once.
Callers == 1..MaxCallers
\* Time between the entries of two calls.
OverlapGaps == {0, 100, 600}
MaxLate == 20

Sleeping(c) == tpc[c] = "throttle"

\* The deadline of setTimeout(resolve, MIN_DELAY_MS - elapsed) set at time t.
WakeAtMutant(t) == t
WakeAt(t) == t + ThrottleDelay(t - lastRequestTime)

\* A timer fires at its deadline or up to MaxLate after it, so the clock
\* cannot pass a pending deadline by more than that.
ClockMayReach(t) == \A c \in Callers : Sleeping(c) => t <= twake[c] + MaxLate

OverlapStart ==
    /\ tpc = [c \in Callers |-> "idle"]
    /\ tenter = [c \in Callers |-> NoTime]
    /\ tbase = [c \in Callers |-> NoTime]
    /\ twake = [c \in Callers |-> NoTime]
    /\ tsent = [c \in Callers |-> NoTime]

OverlapIdle ==
    /\ tpc = [c \in Callers |-> "off"]
    /\ tenter = [c \in Callers |-> NoTime]
    /\ tbase = [c \in Callers |-> NoTime]
    /\ twake = [c \in Callers |-> NoTime]
    /\ tsent = [c \in Callers |-> NoTime]

OverlapOnly ==
    UNCHANGED <<fpc, attempt, maxRetries, wakeAt, result, stamp, prevStamp,
                reqStarts, responses, waits, ncalls, lastSent, discVars,
                contVars, dedVars, buildVars, checkVars, pipeVars>>

\* A call enters rateLimit() and elapsed >= MIN_DELAY_MS: lastRequestTime is
\* set without a sleep and the request is sent.
RateLimitPass(c, gap) ==
    /\ OverlapOnly
    /\ tpc[c] = "idle"
    /\ ClockMayReach(now + gap)
    /\ ThrottleDelay((now + gap) - lastRequestTime) = 0
    /\ now' = now + gap
    /\ lastRequestTime' = now'
    /\ tpc' = [tpc EXCEPT ![c] = "request"]
    /\ tenter' = [tenter EXCEPT ![c] = now']
    /\ tbase' = [tbase EXCEPT ![c] = lastRequestTime]
    /\ tsent' = [tsent EXCEPT ![c] = now']
    /\ UNCHANGED twake

\* A call enters rateLimit() and elapsed < MIN_DELAY_MS: it sets the timer
\* and awaits it. lastRequestTime is not written before the timer fires.
RateLimitSleep(c, gap) ==
    /\ OverlapOnly
    /\ tpc[c] = "idle"
    /\ ClockMayReach(now + gap)
    /\ ThrottleDelay((now + gap) - lastRequestTime) > 0
    /\ now' = now + gap
    /\ tpc' = [tpc EXCEPT ![c] = "throttle"]
    /\ tenter' = [tenter EXCEPT ![c] = now']
    /\ tbase' = [tbase EXCEPT ![c] = lastRequestTime]
    /\ twake' = [twake EXCEPT ![c] = WakeAt(now')]
    /\ UNCHANGED <<lastRequestTime, tsent>>

\* The timer of a sleeping call fires (timers fire in the order of their
\* deadlines): lastRequestTime = Date.now(), and the request is sent.
RateLimitWake(c, late) ==
    /\ OverlapOnly
    /\ Sleeping(c)
    /\ \A c2 \in Callers : Sleeping(c2) => twake[c] <= twake[c2]
    /\ now' = IF twake[c] + late > now THEN twake[c] + late ELSE now
    /\ lastRequestTime' = now'
    /\ tpc' = [tpc EXCEPT ![c] = "request"]
    /\ tsent' = [tsent EXCEPT ![c] = now']
    /\ UNCHANGED <<tenter, tbase, twake>>

OverlapNext ==
    \/ \E c \in Callers, gap \in OverlapGaps : RateLimitPass(c, gap)
    \/ \E c \in Callers, gap \in OverlapGaps : RateLimitSleep(c, gap)
    \/ \E c \in Callers, late \in TimerLate : RateLimitWake(c, late)

\* ------------------------------------------------------------------------
\* Discovery parser and discovery phase
\* ------------------------------------------------------------------------
NoFile == <<[file |-> "none"]>>
NoList == [n |-> -1, totalCount |-> -1, hasNextPage |-> FALSE]

\* Entries of an upstream listing, as the fields parseLawList reads.
Raw(title, lawId, lawNumber) ==
    [title |-> title, lawId |-> lawId, lawNumber |-> lawNumber,
     promulgationDate |-> "20110329", enforcementDate |-> "20110930",
     lawType |-> "Act"]
R1 == Raw("T1", "101", "N7")
\* the same internal id as R1 with other content
R1b == Raw("T1b", "101", "")
R2 == Raw("T2", "102", "")
\* another internal id with the law number of R1
R3 == Raw("T3", "103", "N7")
\* no internal id
R0 == Raw("T0", "", "N9")
\* no title
Ru == Raw("", "104", "N4")

\* A listing of display=100 entries, and one of them with an untitled entry.
FullListing == [i \in 1..100 |-> IF i % 3 = 1 THEN R2 ELSE IF i % 3 = 2 THEN R1 ELSE R3]
FullListingUntitled == [i \in 1..100 |-> IF i = 50 THEN Ru ELSE FullListing[i]]

\* The 200 bodies upstream answers a listing request with.
ListBodies ==
    {[totalCnt |-> Len(l), law |-> l] :
        l \in {<<>>, <<R1, R0>>, <<R1b, R0, R2, R1>>, <<Ru, R3, R0, R3>>}}
    \cup {[totalCnt |-> t, law |-> FullListing] : t \in {100, 200, 250}}
    \cup {[totalCnt |-> 250, law |-> FullListingUntitled]}
\* Statuses other than 200 that fetchLawList returns.
ListFailStatuses == {404, 503}

\* parseLawList, one entry: url is synthesized from lawId.
ParseEntry(raw) ==
    [title |-> raw.title, lawId |-> raw.lawId, lawNumber |-> raw.lawNumber,
     promulgationDate |-> raw.promulgationDate,
     enforcementDate |-> raw.enforcementDate, lawType |-> raw.lawType,
     url |-> "https://www.law.go.kr/LSW/lsInfoP.do?lsiSeq=" \o raw.lawId]

\* const hasNextPage = entries.length >= pageSize && entries.length < totalCount
pageSize == 100
HasNextPage(n, totalCount) == n >= pageSize /\ n < totalCount

\* parseLawList: entries without a title are dropped.
ParseLawList(body) ==
    LET titled == SelectSeq(body.law, LAMBDA r : r.title # "")
        entries == [i \in 1..Len(titled) |-> ParseEntry(titled[i])]
    IN  [entries |-> entries, totalCount |-> body.totalCnt,
         hasNextPage |-> HasNextPage(Len(entries), body.totalCnt)]

\* The deduplication loop of discoverLaws. When the loop reaches entry i,
\* `seen` holds exactly the non-empty lawIds of the entries before i, so
\* entry i is pushed iff its lawId is non-empty and no earlier entry has it.
PushedMutant(es, i) ==
    /\ es[i].lawId # ""
    /\ \A j \in (i + 1)..Len(es) : es[j].lawId # es[i].lawId
Pushed(es, i) ==
    /\ \A j \in 1..(i - 1) : es[j].lawId # es[i].lawId
    /\ es[i].lawId # ""

Deduped(es) ==
    LET idx == SelectSeq([i \in 1..Len(es) |-> i], LAMBDA i : Pushed(es, i))
    IN  [k \in 1..Len(idx) |-> es[idx[k]]]

MaxPage == 10

DiscStart ==
    /\ dpc = "list"
    /\ qi = 1
    /\ page = 1
    /\ allEntries = <<>>
    /\ indexFile = NoFile
    /\ cumulative = 0
    /\ lastList = NoList

DiscIdle ==
    /\ dpc = "off"
    /\ qi = 1
    /\ page = 1
    /\ allEntries = <<>>
    /\ indexFile = NoFile
    /\ cumulative = 0
    /\ lastList = NoList

\* The while loop of the current query is left: the for loop goes to the next
\* query, or to the deduplication after the last one.
NextQuery ==
    /\ qi' = qi + 1
    /\ page' = 1
    /\ dpc' = IF qi = NumQueries THEN "dedupe" ELSE "list"

Sizes(r) == [n |-> Len(r.entries), totalCount |-> r.totalCount,
             hasNextPage |-> r.hasNextPage]

\* fetchLawList answers with a status other than 200: break.
ListNon200(st) ==
    /\ DiscOnly
    /\ dpc = "list"
    /\ NextQuery
    /\ cumulative' = 0
    /\ lastList' = NoList
    /\ UNCHANGED <<allEntries, indexFile>>

\* A page is parsed and pushed, hasNextPage is true and the page cap is not
\* reached: the loop goes on with the next page.
ListPageMore(body) ==
    LET r == ParseLawList(body) IN
    /\ DiscOnly
    /\ dpc = "list"
    /\ r.hasNextPage
    /\ page + 1 <= MaxPage
    /\ allEntries' = allEntries \o r.entries
    /\ page' = page + 1
    /\ cumulative' = (IF page = 1 THEN 0 ELSE cumulative) + Len(r.entries)
    /\ lastList' = Sizes(r)
    /\ UNCHANGED <<dpc, qi, indexFile>>

\* A page is parsed and pushed and hasNextPage is false: the loop ends.
ListPageLast(body) ==
    LET r == ParseLawList(body) IN
    /\ DiscOnly
    /\ dpc = "list"
    /\ ~r.hasNextPage
    /\ page + 1 <= MaxPage
    /\ allEntries' = allEntries \o r.entries
    /\ NextQuery
    /\ cumulative' = (IF page = 1 THEN 0 ELSE cumulative) + Len(r.entries)
    /\ lastList' = Sizes(r)
    /\ UNCHANGED indexFile

\* A page is parsed and pushed and page > 10 after page++: break.
ListPageCap(body) ==
    LET r == ParseLawList(body) IN
    /\ DiscOnly
    /\ dpc = "list"
    /\ page + 1 > MaxPage
    /\ allEntries' = allEntries \o r.entries
    /\ NextQuery
    /\ cumulative' = (IF page = 1 THEN 0 ELSE cumulative) + Len(r.entries)
    /\ lastList' = Sizes(r)
    /\ UNCHANGED indexFile

\* fetchLawList rejects: discoverLaws rejects and main's catch exits 1.
ListThrows ==
    /\ DiscOnly
    /\ dpc = "list"
    /\ dpc' = "fatal"
    /\ UNCHANGED <<qi, page, allEntries, indexFile, cumulative, lastList>>

\* After the last query: deduplicate by lawId and write the index file.
DedupeAndSave ==
    /\ DiscOnly
    /\ dpc = "dedupe"
    /\ indexFile' = Deduped(allEntries)
    /\ dpc' = "done"
    /\ UNCHANGED <<qi, page, allEntries, cumulative, lastList>>

DiscNext ==
    \/ \E st \in ListFailStatuses : ListNon200(st)
    \/ \E b \in ListBodies : ListPageMore(b)
    \/ \E b \in ListBodies : ListPageLast(b)
    \/ \E b \in ListBodies : ListPageCap(b)
    \/ ListThrows
    \/ DedupeAndSave

\* ------------------------------------------------------------------------
\* Law document parser (parseLawXml) as far as the content phase needs it
\* ------------------------------------------------------------------------
\* Strings whose characters matter are sequences of one-character strings.
IsDigit(c) == c \in {"0", "1", "2", "3", "4", "5", "6", "7", "8", "9"}
IsSpace(c) == c \in {" ", "\t", "\n"}

\* text.trim()
RECURSIVE TrimLeft(_)
TrimLeft(text) ==
    IF text # <<>> /\ IsSpace(Head(text)) THEN TrimLeft(Tail(text)) ELSE text
RECURSIVE TrimRight(_)
TrimRight(text) ==
    IF text # <<>> /\ IsSpace(text[Len(text)])
    THEN TrimRight(SubSeq(text, 1, Len(text) - 1))
    ELSE text
Trim(text) == TrimRight(TrimLeft(text))

\* text.replace(/\s+/g, ' '): every run of whitespace becomes one space
RECURSIVE CollapseSpaces(_, _)
CollapseSpaces(text, inRun) ==
    IF text = <<>> THEN <<>>
    ELSE IF IsSpace(Head(text))
         THEN (IF inRun THEN <<>> ELSE <<" ">>) \o CollapseSpaces(Tail(text), TRUE)
         ELSE <<Head(text)>> \o CollapseSpaces(Tail(text), FALSE)

\* normalizeWhitespace
NormalizeWhitespace(text) == Trim(CollapseSpaces(text, FALSE))

\* formatDate
FormatDate(dateStr) ==
    IF dateStr = <<>> \/ Len(dateStr) < 8 THEN dateStr
    ELSE LET clean == SelectSeq(dateStr, IsDigit) IN
         IF Len(clean) = 8
         THEN SubSeq(clean, 1, 4) \o <<"-">> \o SubSeq(clean, 5, 6) \o <<"-">>
                  \o SubSeq(clean, 7, 8)
         ELSE dateStr

\* text.trim() is not empty
NonBlank(text) == \E i \in 1..Len(text) : ~IsSpace(text[i])

\* The article loop of parseLawXml: an article with neither number nor
\* content is dropped, and so is one whose content is blank.
\* The items of a paragraph: fullContent += '\n  ' + itemContent for every
\* item whose content is not blank.
RECURSIVE ItemLines(_)
ItemLines(items) ==
    IF items = <<>> THEN <<>>
    ELSE (IF NonBlank(Head(items)) THEN <<"\n", " ", " ">> \o Head(items)
          ELSE <<>>) \o ItemLines(Tail(items))

\* The paragraphs of an article: fullContent += '\n' + paraContent for every
\* paragraph whose content is not blank, each followed by its items.
RECURSIVE ParagraphLines(_)
ParagraphLines(paras) ==
    IF paras = <<>> THEN <<>>
    ELSE (IF NonBlank(Head(paras).paragraphContent)
          THEN <<"\n">> \o Head(paras).paragraphContent
          ELSE <<>>)
         \o ItemLines(Head(paras).items) \o ParagraphLines(Tail(paras))

\* fullContent at the end of the paragraph loop
FullContent(a) == a.articleContent \o ParagraphLines(a.paragraphs)

ArticleKept(a) ==
    /\ ~(a.articleNumber = <<>> /\ a.articleContent = <<>>)
    /\ NonBlank(FullContent(a))

\* The two marker characters of an article number ("je" ... "jo", written
\* here in Latin letters, each one character of the source text).
ArticleMarkers == {"je", "jo"}
\* articleNumber.replace(/[<markers>]/g, '').trim()
CleanNumber(num) == Trim(SelectSeq(num, LAMBDA c : c \notin ArticleMarkers))

\* id: `act-${lawNumber || lawId}`
DocumentId(lawNumber, lawId) ==
    "act-" \o (IF lawNumber # "" THEN lawNumber ELSE lawId)

ParseLawXml(body, lawId) ==
    LET kept == SelectSeq(body.articles, ArticleKept) IN
    [id |-> DocumentId(body.lawNumber, lawId),
     title |-> body.title,
     law_number |-> body.lawNumber,
     status |-> "in_force",
     issued_date |-> FormatDate(body.promulgationDate),
     in_force_date |-> FormatDate(body.enforcementDate),
     title_en |-> body.titleEn,
     url |-> "https://www.law.go.kr/LSW/lsInfoP.do?lsiSeq=" \o lawId,
     provisions |-> [i \in 1..Len(kept) |->
                        [provision_ref |-> <<"a", "r", "t", "-">>
                                              \o CleanNumber(kept[i].articleNumber),
                         section |-> <<"je">> \o CleanNumber(kept[i].articleNumber)
                                        \o <<"jo">>,
                         title |-> kept[i].articleTitle,
                         content |-> NormalizeWhitespace(FullContent(kept[i]))]]]

\* ------------------------------------------------------------------------
\* Content phase
\* ------------------------------------------------------------------------
NoSeed == [exists |-> FALSE]
NoLast == [run |-> 0, pos |-> 0, lawId |-> "", outcome |-> "none", upstream |-> 0]

\* The internal ids the model's entries carry: the names of the seed files.
LawIds == {"101", "102", "103"}

\* Discovery indexes the runs work on: deduplicated, no empty lawId.
Indexes ==
    {<<ParseEntry(R1), ParseEntry(R2)>>,
     <<ParseEntry(R2), ParseEntry(R1b), ParseEntry(R3)>>,
     <<ParseEntry(R3)>>}
\* --limit N; 0 stands for no limit
Limits == {0, 1}

Paragraph(content, items) == [paragraphContent |-> content, items |-> items]
ArticleWith(num, content, paras) ==
    [articleNumber |-> num, articleTitle |-> "", articleContent |-> content,
     paragraphs |-> paras]
Article(num, content) == ArticleWith(num, content, <<>>)
\* The law documents upstream serves, as the fields parseLawXml reads.
Bodies ==
    {[lawNumber |-> "N7", title |-> "T1", titleEn |-> "E1",
      promulgationDate |-> <<"2", "0", "1", "1", "0", "3", "2", "9">>,
      enforcementDate |-> <<"2", "0", "1", "1", ".", "9", ".", "3", "0">>,
      articles |-> <<Article(<<"je", "1", "jo">>, <<"a">>), Article(<<>>, <<>>),
                     Article(<<"2">>, <<" ">>),
                     ArticleWith(<<"3">>, <<"b", " ", "c">>,
                                 <<Paragraph(<<"p">>, <<<<"i">>, <<" ">>>>),
                                   Paragraph(<<>>, <<<<"k">>>>)>>)>>],
     [lawNumber |-> "", title |-> "T2", titleEn |-> "",
      promulgationDate |-> <<>>,
      enforcementDate |-> <<"2", "0", "2", "0">>,
      articles |-> <<>>]}
\* A 200 body on which parseLawXml throws.
Unparsable == [malformed |-> TRUE]
\* What upstream answers a content request with: a status (with a document
\* when 200), or nothing at all (status 0: fetchLawDetail rejects).
Responses ==
    {[status |-> st, body |-> Unparsable] : st \in {404, 503, 0, 200}}
    \cup {[status |-> 200, body |-> b] : b \in Bodies}
\* The try block throws: the fetch rejects, or the parser throws.
Throws(resp) ==
    resp.status = 0 \/ (resp.status = 200 /\ resp.body = Unparsable)

\* fs.existsSync(seedFile)
SeedExistsNever(lawId) == FALSE
SeedExistsMutant(lawId) == seedFiles[lawId] # NoSeed /\ lawId \notin stubs
SeedExists(lawId) == seedFiles[lawId] # NoSeed

\* The minimal seed of the 404 branch.
MinimalSeedMutant(law) ==
    [id |-> "act-" \o law.lawId,
     title |-> law.title,
     law_number |-> law.lawNumber,
     status |-> "in_force",
     issued_date |-> law.promulgationDate,
     in_force_date |-> law.enforcementDate,
     url |-> law.url,
     provisions |-> <<>>]
MinimalSeed(law) ==
    [id |-> DocumentId(law.lawNumber, law.lawId),
     title |-> law.title,
     law_number |-> law.lawNumber,
     status |-> "in_force",
     issued_date |-> law.promulgationDate,
     in_force_date |-> law.enforcementDate,
     url |-> law.url,
     provisions |-> <<>>]

\* const toProcess = limit ? laws.slice(0, limit) : laws
ToProcess(index, limit) ==
    IF limit # 0
    THEN SubSeq(index, 1, IF limit < Len(index) THEN limit ELSE Len(index))
    ELSE index

ContStart ==
    /\ cpc = "idle"
    /\ runs = 0
    /\ laws = <<>>
    /\ pos = 1
    /\ processed = 0
    /\ skipped = 0
    /\ failed = 0
    /\ totalProvisions = 0
    /\ seedFiles = [id \in LawIds |-> NoSeed]
    /\ stubs = {}
    /\ fetchCalls = 0
    /\ last = NoLast
    /\ failedIn = [id \in LawIds |-> 0]
    /\ outcomes = [id \in LawIds |-> "none"]

ContIdle ==
    /\ cpc = "off"
    /\ runs = 0
    /\ laws = <<>>
    /\ pos = 1
    /\ processed = 0
    /\ skipped = 0
    /\ failed = 0
    /\ totalProvisions = 0
    /\ seedFiles = [id \in LawIds |-> NoSeed]
    /\ stubs = {}
    /\ fetchCalls = 0
    /\ last = NoLast
    /\ failedIn = [id \in LawIds |-> 0]
    /\ outcomes = [id \in LawIds |-> "none"]

\* main: the index is loaded or discovered, and fetchAndParseLaws starts.
StartRun(index, limit) ==
    /\ ContOnly
    /\ cpc \in {"idle", "finished"}
    /\ runs < MaxRuns
    /\ runs' = runs + 1
    /\ laws' = ToProcess(index, limit)
    /\ pos' = 1
    /\ processed' = 0
    /\ skipped' = 0
    /\ failed' = 0
    /\ totalProvisions' = 0
    /\ fetchCalls' = 0
    /\ cpc' = "loop"
    /\ outcomes' = [id \in LawIds |-> "none"]
    /\ UNCHANGED <<seedFiles, stubs, last, failedIn>>

Handling == cpc = "loop" /\ pos <= Len(laws)
Law == laws[pos]
Handled(outcome, resp) ==
    /\ last' = [run |-> runs, pos |-> pos, lawId |-> Law.lawId,
                outcome |-> outcome, upstream |-> resp.status]
    /\ pos' = pos + 1
    /\ failedIn' = IF outcome \in {"error", "thrown"}
                   THEN [failedIn EXCEPT ![Law.lawId] = runs]
                   ELSE failedIn
    /\ outcomes' = [outcomes EXCEPT ![Law.lawId] = outcome]
    /\ UNCHANGED <<cpc, runs, laws>>

\* The seed file exists: skipped++, processed++, continue. resp is what
\* upstream would answer for the entry; it is not asked.
SkipExistingMutant(resp) ==
    /\ ContOnly
    /\ Handling
    /\ SeedExists(Law.lawId)
    /\ skipped' = skipped + 1
    /\ Handled("skip", resp)
    /\ UNCHANGED <<processed, failed, totalProvisions, seedFiles, stubs, fetchCalls>>
SkipExisting(resp) ==
    /\ ContOnly
    /\ Handling
    /\ SeedExists(Law.lawId)
    /\ skipped' = skipped + 1
    /\ processed' = processed + 1
    /\ Handled("skip", resp)
    /\ UNCHANGED <<failed, totalProvisions, seedFiles, stubs, fetchCalls>>

\* 404: the minimal seed is written, failed++, processed++.
Content404(resp) ==
    /\ ContOnly
    /\ Handling
    /\ ~SeedExists(Law.lawId)
    /\ resp.status = 404
    /\ fetchCalls' = fetchCalls + 1
    /\ seedFiles' = [seedFiles EXCEPT ![Law.lawId] = MinimalSeed(Law)]
    /\ stubs' = stubs \cup {Law.lawId}
    /\ failed' = failed + 1
    /\ processed' = processed + 1
    /\ Handled("stub", resp)
    /\ UNCHANGED <<skipped, totalProvisions>>

\* Another status than 200 and 404: failed++, processed++, no seed.
ContentOtherStatusMutant(resp) ==
    /\ ContOnly
    /\ Handling
    /\ ~SeedExists(Law.lawId)
    /\ ~Throws(resp)
    /\ resp.status # 200
    /\ resp.status # 404
    /\ fetchCalls' = fetchCalls + 1
    /\ seedFiles' = [seedFiles EXCEPT ![Law.lawId] = MinimalSeed(Law)]
    /\ stubs' = stubs \cup {Law.lawId}
    /\ failed' = failed + 1
    /\ processed' = processed + 1
    /\ Handled("error", resp)
    /\ UNCHANGED <<skipped, totalProvisions>>
ContentOtherStatus(resp) ==
    /\ ContOnly
    /\ Handling
    /\ ~SeedExists(Law.lawId)
    /\ ~Throws(resp)
    /\ resp.status # 200
    /\ resp.status # 404
    /\ fetchCalls' = fetchCalls + 1
    /\ failed' = failed + 1
    /\ processed' = processed + 1
    /\ Handled("error", resp)
    /\ UNCHANGED <<skipped, totalProvisions, seedFiles, stubs>>

\* 200: the document is parsed and written, its provisions counted.
Content200(resp) ==
    /\ ContOnly
    /\ Handling
    /\ ~SeedExists(Law.lawId)
    /\ resp.status = 200
    /\ ~Throws(resp)
    /\ fetchCalls' = fetchCalls + 1
    /\ LET parsed == ParseLawXml(resp.body, Law.lawId) IN
          /\ seedFiles' = [seedFiles EXCEPT ![Law.lawId] = parsed]
          /\ totalProvisions' = totalProvisions + Len(parsed.provisions)
    /\ stubs' = stubs \ {Law.lawId}
    /\ processed' = processed + 1
    /\ Handled("full", resp)
    /\ UNCHANGED <<skipped, failed>>

\* fetchLawDetail rejects or parseLawXml throws: the catch block counts
\* failed++, then processed++.
ContentThrowsMutant(resp) ==
    /\ ContOnly
    /\ Handling
    /\ ~SeedExists(Law.lawId)
    /\ Throws(resp)
    /\ fetchCalls' = fetchCalls + 1
    /\ processed' = processed + 1
    /\ Handled("thrown", resp)
    /\ UNCHANGED <<skipped, failed, totalProvisions, seedFiles, stubs>>
ContentThrows(resp) ==
    /\ ContOnly
    /\ Handling
    /\ ~SeedExists(Law.lawId)
    /\ Throws(resp)
    /\ fetchCalls' = fetchCalls + 1
    /\ failed' = failed + 1
    /\ processed' = processed + 1
    /\ Handled("thrown", resp)
    /\ UNCHANGED <<skipped, totalProvisions, seedFiles, stubs>>

\* The loop is over: the totals are printed and main returns.
FinishRun ==
    /\ ContOnly
    /\ cpc = "loop"
    /\ pos > Len(laws)
    /\ cpc' = "finished"
    /\ UNCHANGED <<runs, laws, pos, processed, skipped, failed, totalProvisions,
                   seedFiles, stubs, fetchCalls, last, failedIn, outcomes>>

\* The process is killed during the loop: the seed directory stays as it is.
Interrupt ==
    /\ ContOnly
    /\ cpc = "loop"
    /\ cpc' = "idle"
    /\ UNCHANGED <<runs, laws, pos, processed, skipped, failed, totalProvisions,
                   seedFiles, stubs, fetchCalls, last, failedIn, outcomes>>

ContNext ==
    \/ \E index \in Indexes, limit \in Limits : StartRun(index, limit)
    \/ \E resp \in Responses : SkipExisting(resp)
    \/ \E resp \in Responses : Content404(resp)
    \/ \E resp \in Responses : ContentOtherStatus(resp)
    \/ \E resp \in Responses : Content200(resp)
    \/ \E resp \in Responses : ContentThrows(resp)
    \/ FinishRun
    \/ Interrupt

\* ------------------------------------------------------------------------
\* Provision deduplication of the index builder
\* ------------------------------------------------------------------------
\* if (incomingContent.length > existingContent.length)
IncomingLongerMutant(incoming, existing) ==
    Len(NormalizeWhitespace(incoming.content))
        >= Len(NormalizeWhitespace(existing.content))
IncomingLonger(incoming, existing) ==
    Len(NormalizeWhitespace(incoming.content))
        > Len(NormalizeWhitespace(existing.content))

NoTitle == [defined |-> FALSE, text |-> ""]
Title(t) == [defined |-> TRUE, text |-> t]

\* provision.title ?? existing.title
Coalesce(a, b) == IF a.defined THEN a ELSE b

\* The provision lists given to dedupeProvisions; section numbers the
\* provisions of a list, so that each can be told from the others.
ProvisionRefs == {<<"a">>, <<" ", "a">>, <<"b">>}
\* content and title of a provision
ProvisionBodies ==
    {<<<<"x">>, NoTitle>>,
     <<<<"x">>, Title("T")>>,
     <<<<"x", " ", " ", "y">>, NoTitle>>,
     <<<<"x", "y", "z">>, Title("T")>>}
ProvisionLists ==
    UNION {[1..n -> ProvisionRefs \X ProvisionBodies] : n \in 1..MaxProvisions}
ProvisionSeed(f, i) ==
    [provision_ref |-> f[i][1], section |-> i, title |-> f[i][2][2],
     content |-> f[i][2][1]]

\* byRef.get(ref): the position of the entry of ref, 0 when there is none
PositionOf(ref) ==
    IF \E k \in 1..Len(byRef) : byRef[k].provision_ref = ref
    THEN CHOOSE k \in 1..Len(byRef) : byRef[k].provision_ref = ref
    ELSE 0

DedStart ==
    /\ \E f \in ProvisionLists :
          provisions = [i \in 1..Len(f) |-> ProvisionSeed(f, i)]
    /\ di = 1
    /\ byRef = <<>>

DedIdle ==
    /\ provisions = <<>>
    /\ di = 0
    /\ byRef = <<>>

Provision == provisions[di]
\* const ref = provision.provision_ref.trim()
RefMutant == Provision.provision_ref
Ref == Trim(Provision.provision_ref)
InLoop == di >= 1 /\ di <= Len(provisions)

\* No entry for the ref yet: byRef.set(ref, {...provision, provision_ref: ref})
DedupeInsert ==
    /\ DedOnly
    /\ InLoop
    /\ PositionOf(Ref) = 0
    /\ byRef' = Append(byRef, [Provision EXCEPT !.provision_ref = Ref])
    /\ di' = di + 1
    /\ UNCHANGED provisions

\* The incoming provision has more content: it replaces the entry, with the
\* title of the entry when it has none of its own.
DedupeReplace ==
    /\ DedOnly
    /\ InLoop
    /\ PositionOf(Ref) # 0
    /\ IncomingLonger(Provision, byRef[PositionOf(Ref)])
    /\ byRef' = [byRef EXCEPT ![PositionOf(Ref)] =
                    [Provision EXCEPT
                        !.provision_ref = Ref,
                        !.title = Coalesce(Provision.title,
                                           byRef[PositionOf(Ref)].title)]]
    /\ di' = di + 1
    /\ UNCHANGED provisions

\* Otherwise the entry stays.
DedupeKeep ==
    /\ DedOnly
    /\ InLoop
    /\ PositionOf(Ref) # 0
    /\ ~IncomingLonger(Provision, byRef[PositionOf(Ref)])
    /\ di' = di + 1
    /\ UNCHANGED <<provisions, byRef>>

DedNext ==
    \/ DedupeInsert
    \/ DedupeReplace
    \/ DedupeKeep

\* ------------------------------------------------------------------------
\* Index builder (buildDatabase)
\* ------------------------------------------------------------------------
\* Titles of documents are sequences of words and blanks, so that
\* String.includes can be computed; Korean words are written in Latin letters.
\* '<gaeinjeongbo bohobeop>' (Personal Information Protection Act)
MarkerKo == <<"gaeinjeongbo", " ", "bohobeop">>
\* 'Personal Information Protection'
MarkerEn == <<"Personal", " ", "Information", " ", "Protection">>

\* text.includes(marker)
Includes(text, marker) ==
    \E i \in 1..(Len(text) - Len(marker) + 1) :
        SubSeq(text, i, i + Len(marker) - 1) = marker

\* An optional title_en that is absent (undefined).
NoTitleEn == [defined |-> FALSE, text |-> <<>>]

\* seed.title.includes(<MarkerKo>) || seed.title_en?.includes(<MarkerEn>)
TitleMatches(seed) ==
    \/ Includes(seed.title, MarkerKo)
    \/ (seed.title_en.defined /\ Includes(seed.title_en.text, MarkerEn))

\* dedupeProvisions as a function: one turn of its loop, and the whole loop.
DedupeStep(map, p) ==
    LET ref == Trim(p.provision_ref)
        at == IF \E k \in 1..Len(map) : map[k].provision_ref = ref
              THEN CHOOSE k \in 1..Len(map) : map[k].provision_ref = ref
              ELSE 0
    IN  IF at = 0
        THEN Append(map, [p EXCEPT !.provision_ref = ref])
        ELSE IF IncomingLonger(p, map[at])
             THEN [map EXCEPT ![at] =
                      [p EXCEPT !.provision_ref = ref,
                                !.title = Coalesce(p.title, map[at].title)]]
             ELSE map
RECURSIVE DedupeLoop(_, _)
DedupeLoop(map, ps) ==
    IF ps = <<>> THEN map ELSE DedupeLoop(DedupeStep(map, Head(ps)), Tail(ps))
DedupeProvisions(ps) == DedupeLoop(<<>>, ps)

\* JSON.parse of a seed file written by the ingestion (JSON.stringify of a
\* ParsedLaw or of the minimal seed): the minimal seed has no title_en, and
\* a provision's title is always present.
ReadSeed(written) ==
    [id |-> written.id,
     title |-> written.title,
     title_en |-> IF "title_en" \in DOMAIN written
                  THEN Title(written.title_en) ELSE NoTitleEn,
     law_number |-> written.law_number,
     provisions |-> [i \in 1..Len(written.provisions) |->
                        [written.provisions[i] EXCEPT
                            !.title = Title(written.provisions[i].title)]]]
\* A seed file on which JSON.parse throws.
BadSeed == [malformed |-> TRUE]

\* Law documents and index entries behind the seed files of the model.
BodyPipa ==
    [lawNumber |-> "N7", title |-> MarkerKo, titleEn |-> <<>>,
     promulgationDate |-> <<>>, enforcementDate |-> <<>>,
     articles |-> <<Article(<<"je", "1", "jo">>, <<"a">>),
                    Article(<<"1">>, <<"a", " ", " ", "b">>),
                    Article(<<"2">>, <<"c">>)>>]
BodyPipaEn ==
    [lawNumber |-> "", title |-> <<"beop">>,
     titleEn |-> <<"Act", " ", "on">> \o <<" ">> \o MarkerEn,
     promulgationDate |-> <<>>, enforcementDate |-> <<>>,
     articles |-> <<Article(<<"1">>, <<"d">>)>>]
BodyOther ==
    [lawNumber |-> "N7", title |-> <<"jeonja", " ", "jeongbubeop">>,
     titleEn |-> <<"Personal", " ", "Protection">>,
     promulgationDate |-> <<>>, enforcementDate |-> <<>>,
     articles |-> <<Article(<<"5">>, <<" ">>)>>]
BodyPlain ==
    [lawNumber |-> "N8", title |-> <<"sinyong", " ", "jeongbobeop">>,
     titleEn |-> <<>>,
     promulgationDate |-> <<>>, enforcementDate |-> <<>>,
     articles |-> <<Article(<<"7">>, <<"e">>), Article(<<" ", "7">>, <<"e">>)>>]
EntryPipaDecree ==
    ParseEntry(Raw(MarkerKo \o <<" ", "sihaengnyeong">>, "202", ""))

\* data/seed: the seed files by name (<lawId>.json), in directory order.
AllSeedFiles ==
    <<[name |-> "201", seed |-> ReadSeed(ParseLawXml(BodyPipa, "201"))],
      [name |-> "202", seed |-> ReadSeed(MinimalSeed(EntryPipaDecree))],
      [name |-> "203", seed |-> ReadSeed(ParseLawXml(BodyPipaEn, "203"))],
      [name |-> "204", seed |-> ReadSeed(ParseLawXml(BodyOther, "204"))],
      [name |-> "205", seed |-> BadSeed],
      [name |-> "206", seed |-> ReadSeed(ParseLawXml(BodyPlain, "206"))]>>
NoDir == [exists |-> FALSE, files |-> <<>>]
\* fs.readdirSync(SEED_DIR) of a directory holding the files numbered in S
Listing(S) ==
    [exists |-> TRUE,
     files |-> [k \in 1..Cardinality(S) |->
                  AllSeedFiles[CHOOSE i \in S :
                                   Cardinality({j \in S : j < i}) = k - 1]]]

\* The store file data/database.db.
NoStore ==
    [exists |-> FALSE, open |-> FALSE, journal |-> "none", meta |-> FALSE,
     docs |-> <<>>, provs |-> <<>>, refs |-> <<>>, euDocs |-> {}]
\* A store published by an earlier build.
OldStore ==
    [exists |-> TRUE, open |-> FALSE, journal |-> "delete", meta |-> TRUE,
     docs |-> <<[id |-> "act-OLD", title |-> <<"beop">>, title_en |-> NoTitleEn,
                 law_number |-> "OLD"]>>,
     provs |-> <<>>, refs |-> <<>>,
     euDocs |-> {"regulation:2016/679", "directive:2022/2555",
                 "regulation:2024/1689"}]
\* insertDefaultEuDocuments
DefaultEuDocuments ==
    {"regulation:2016/679", "directive:2022/2555", "regulation:2024/1689"}
NoTx == [docs |-> <<>>, provs |-> <<>>, refs |-> <<>>, euDocs |-> {}]

BuildStart ==
    /\ bpc = "start"
    /\ seedDir \in {NoDir}
          \cup {Listing(S) : S \in {T \in SUBSET (1..Len(AllSeedFiles)) :
                                       Cardinality(T) <= MaxSeeds}}
    /\ bi = 1
    /\ tx = NoTx
    /\ db \in {NoStore, OldStore}
    /\ ops = <<>>
    /\ faults = {}
    /\ before = db

BuildIdle ==
    /\ bpc = "off"
    /\ seedDir = NoDir
    /\ bi = 1
    /\ tx = NoTx
    /\ db = NoStore
    /\ ops = <<>>
    /\ faults = {}
    /\ before = NoStore

\* The old file is unlinked, the new one opened, WAL switched on and the
\* schema created.
FreshStore ==
    [exists |-> TRUE, open |-> TRUE, journal |-> "wal", meta |-> FALSE,
     docs |-> <<>>, provs |-> <<>>, refs |-> <<>>, euDocs |-> {}]

\* No seed directory: the default EU documents are inserted (outside any
\* transaction) and the build goes on to metadata and finalization.
BuildNoSeedDir ==
    /\ BuildOnly
    /\ bpc = "start"
    /\ ~seedDir.exists
    /\ db' = [FreshStore EXCEPT !.euDocs = DefaultEuDocuments]
    /\ ops' = <<"journal_mode = WAL", "schema">>
    /\ bpc' = "metadata"
    /\ UNCHANGED <<seedDir, bi, tx, faults>>

\* The seed directory holds no seed file: the same.
BuildNoSeedFiles ==
    /\ BuildOnly
    /\ bpc = "start"
    /\ seedDir.exists
    /\ Len(seedDir.files) = 0
    /\ db' = [FreshStore EXCEPT !.euDocs = DefaultEuDocuments]
    /\ ops' = <<"journal_mode = WAL", "schema">>
    /\ bpc' = "metadata"
    /\ UNCHANGED <<seedDir, bi, tx, faults>>

\* There are seed files: loadAll() begins its transaction and inserts the
\* default EU documents in it.
BuildBeginLoad ==
    /\ BuildOnly
    /\ bpc = "start"
    /\ seedDir.exists
    /\ Len(seedDir.files) > 0
    /\ db' = FreshStore
    /\ ops' = <<"journal_mode = WAL", "schema">>
    /\ tx' = [NoTx EXCEPT !.euDocs = DefaultEuDocuments]
    /\ bi' = 1
    /\ bpc' = "load"
    /\ UNCHANGED <<seedDir, faults>>

Loading == bpc = "load" /\ bi <= Len(seedDir.files)
File == seedDir.files[bi]
\* legal_documents.id is the primary key: insertDoc throws on an id that is
\* already there.
DocInsertThrows(seed) == \E k \in 1..Len(tx.docs) : tx.docs[k].id = seed.id
DocRow(seed) ==
    [id |-> seed.id, title |-> seed.title, title_en |-> seed.title_en,
     law_number |-> seed.law_number]
\* The legal_provisions rows of a seed: one per deduplicated provision.
ProvisionRowsMutant(seed) ==
    [k \in 1..Len(seed.provisions) |->
        [document_id |-> seed.id,
         provision_ref |-> seed.provisions[k].provision_ref,
         section |-> seed.provisions[k].section,
         title |-> seed.provisions[k].title,
         content |-> seed.provisions[k].content]]
ProvisionRows(seed) ==
    LET deduped == DedupeProvisions(seed.provisions) IN
    [k \in 1..Len(deduped) |->
        [document_id |-> seed.id,
         provision_ref |-> deduped[k].provision_ref,
         section |-> deduped[k].section,
         title |-> deduped[k].title,
         content |-> deduped[k].content]]
\* The eu_references row of the automatic link.
ReferenceRow(seed) ==
    [source_type |-> "document", source_id |-> seed.id,
     document_id |-> seed.id, eu_document_id |-> "regulation:2016/679",
     reference_type |-> "references"]
Loads == File.seed # BadSeed /\ ~DocInsertThrows(File.seed)

\* A seed without provisions: the document row is inserted, emptyDocs++,
\* continue.
LoadSeedNoProvisions ==
    /\ BuildOnly
    /\ Loading
    /\ Loads
    /\ Len(File.seed.provisions) = 0
    /\ tx' = [tx EXCEPT !.docs = Append(@, DocRow(File.seed))]
    /\ bi' = bi + 1
    /\ UNCHANGED <<bpc, seedDir, db, ops, faults>>

\* A seed with provisions whose titles do not match: document row and
\* provision rows.
LoadSeedPlain ==
    /\ BuildOnly
    /\ Loading
    /\ Loads
    /\ Len(File.seed.provisions) > 0
    /\ ~TitleMatches(File.seed)
    /\ tx' = [tx EXCEPT !.docs = Append(@, DocRow(File.seed)),
                        !.provs = @ \o ProvisionRows(File.seed)]
    /\ bi' = bi + 1
    /\ UNCHANGED <<bpc, seedDir, db, ops, faults>>

\* A seed with provisions and a matching title: the reference row as well.
LoadSeedLinked ==
    /\ BuildOnly
    /\ Loading
    /\ Loads
    /\ Len(File.seed.provisions) > 0
    /\ TitleMatches(File.seed)
    /\ tx' = [tx EXCEPT !.docs = Append(@, DocRow(File.seed)),
                        !.provs = @ \o ProvisionRows(File.seed),
                        !.refs = Append(@, ReferenceRow(File.seed))]
    /\ bi' = bi + 1
    /\ UNCHANGED <<bpc, seedDir, db, ops, faults>>

\* The same, but insertEuReference.run throws: the catch block around it
\* ignores the error and the loop goes on.
LoadSeedLinkThrows ==
    /\ BuildOnly
    /\ Loading
    /\ Loads
    /\ Len(File.seed.provisions) > 0
    /\ TitleMatches(File.seed)
    /\ tx' = [tx EXCEPT !.docs = Append(@, DocRow(File.seed)),
                        !.provs = @ \o ProvisionRows(File.seed)]
    /\ faults' = faults \cup {[file |-> File.name, at |-> "reference"]}
    /\ bi' = bi + 1
    /\ UNCHANGED <<bpc, seedDir, db, ops>>

\* JSON.parse or insertDoc throws: the transaction is rolled back and the
\* exception leaves buildDatabase; the process ends.
LoadThrowsMutant ==
    /\ BuildOnly
    /\ Loading
    /\ ~Loads
    /\ faults' = faults \cup
          {[file |-> File.name,
            at |-> IF File.seed = BadSeed THEN "parse" ELSE "document"]}
    /\ tx' = NoTx
    /\ db' = [db EXCEPT !.docs = tx.docs, !.provs = tx.provs]
    /\ bpc' = "aborted"
    /\ UNCHANGED <<seedDir, bi, ops>>
LoadThrows ==
    /\ BuildOnly
    /\ Loading
    /\ ~Loads
    /\ faults' = faults \cup
          {[file |-> File.name,
            at |-> IF File.seed = BadSeed THEN "parse" ELSE "document"]}
    /\ tx' = NoTx
    /\ bpc' = "aborted"
    /\ UNCHANGED <<seedDir, bi, db, ops>>

\* The loop is over: the transaction commits.
LoadCommit ==
    /\ BuildOnly
    /\ bpc = "load"
    /\ bi > Len(seedDir.files)
    /\ db' = [db EXCEPT !.docs = tx.docs, !.provs = tx.provs,
                        !.refs = tx.refs, !.euDocs = tx.euDocs]
    /\ tx' = NoTx
    /\ bpc' = "metadata"
    /\ UNCHANGED <<seedDir, bi, ops, faults>>

\* writeMetadata
WriteMetadata ==
    /\ BuildOnly
    /\ bpc = "metadata"
    /\ db' = [db EXCEPT !.meta = TRUE]
    /\ ops' = Append(ops, "metadata")
    /\ bpc' = "finalize"
    /\ UNCHANGED <<seedDir, bi, tx, faults>>

\* finalizeDb: db.pragma('journal_mode = DELETE')
FinalizeJournalMutant ==
    /\ BuildOnly
    /\ bpc = "finalize"
    /\ ops' = Append(ops, "journal_mode = WAL")
    /\ bpc' = "analyze"
    /\ UNCHANGED <<seedDir, bi, tx, db, faults>>
FinalizeJournal ==
    /\ BuildOnly
    /\ bpc = "finalize"
    /\ db' = [db EXCEPT !.journal = "delete"]
    /\ ops' = Append(ops, "journal_mode = DELETE")
    /\ bpc' = "analyze"
    /\ UNCHANGED <<seedDir, bi, tx, faults>>

\* finalizeDb: db.exec('ANALYZE')
FinalizeAnalyze ==
    /\ BuildOnly
    /\ bpc = "analyze"
    /\ ops' = Append(ops, "ANALYZE")
    /\ bpc' = "vacuum"
    /\ UNCHANGED <<seedDir, bi, tx, db, faults>>

\* finalizeDb: db.exec('VACUUM')
FinalizeVacuum ==
    /\ BuildOnly
    /\ bpc = "vacuum"
    /\ ops' = Append(ops, "VACUUM")
    /\ bpc' = "close"
    /\ UNCHANGED <<seedDir, bi, tx, db, faults>>

\* finalizeDb: db.close(); buildDatabase returns.
FinalizeClose ==
    /\ BuildOnly
    /\ bpc = "close"
    /\ db' = [db EXCEPT !.open = FALSE]
    /\ ops' = Append(ops, "close")
    /\ bpc' = "done"
    /\ UNCHANGED <<seedDir, bi, tx, faults>>

BuildNext ==
    \/ BuildNoSeedDir
    \/ BuildNoSeedFiles
    \/ BuildBeginLoad
    \/ LoadSeedNoProvisions
    \/ LoadSeedPlain
    \/ LoadSeedLinked
    \/ LoadSeedLinkThrows
    \/ LoadThrows
    \/ LoadCommit
    \/ WriteMetadata
    \/ FinalizeJournal
    \/ FinalizeAnalyze
    \/ FinalizeVacuum
    \/ FinalizeClose

\* ------------------------------------------------------------------------
\* Update checker (check-updates: fetchRecentEntries, main)
\* ------------------------------------------------------------------------
\* What the checker finds at DB_PATH: nothing, a file it cannot read as a
\* store, or a store with these legal_documents ids.
LocalStores ==
    {[exists |-> FALSE, readable |-> FALSE, ids |-> {}],
     [exists |-> TRUE, readable |-> FALSE, ids |-> {}]}
    \cup {[exists |-> TRUE, readable |-> TRUE, ids |-> L] :
             L \in {{}, {"act-N7"}, {"act-N7", "act-102", "act-N9"}}}

\* The 200 bodies upstream answers the checker's listing requests with.
CheckBodies ==
    {[totalCnt |-> Len(l), law |-> l] :
        l \in {<<>>, <<R1, R2>>, <<R2, R0>>, <<Ru, R1>>}}

NoExit == 0 - 1

CheckStart ==
    /\ kpc = "start"
    /\ localStore \in LocalStores
    /\ indexReadable \in BOOLEAN
    /\ localDocs = {}
    /\ kq = 1
    /\ recentEntries = <<>>
    /\ nonOk = 0
    /\ newLaws = <<>>
    /\ exitCode = NoExit
    /\ failure = "none"

CheckIdle ==
    /\ kpc = "off"
    /\ localStore = [exists |-> FALSE, readable |-> FALSE, ids |-> {}]
    /\ indexReadable = TRUE
    /\ localDocs = {}
    /\ kq = 1
    /\ recentEntries = <<>>
    /\ nonOk = 0
    /\ newLaws = <<>>
    /\ exitCode = NoExit
    /\ failure = "none"

\* process.exit(code)
Exit(code, why) ==
    /\ exitCode' = code
    /\ failure' = why
    /\ kpc' = "exited"

\* if (!existsSync(DB_PATH)) process.exit(2)
CheckStoreMissing ==
    /\ CheckOnly
    /\ kpc = "start"
    /\ ~localStore.exists
    /\ Exit(2, "store missing")
    /\ UNCHANGED <<nonOk, localStore, indexReadable, localDocs, kq, recentEntries,
                   newLaws>>

\* new Database(...) or the SELECT throws: main rejects, the catch exits 2.
CheckStoreUnreadable ==
    /\ CheckOnly
    /\ kpc = "start"
    /\ localStore.exists
    /\ ~localStore.readable
    /\ Exit(2, "store unreadable")
    /\ UNCHANGED <<nonOk, localStore, indexReadable, localDocs, kq, recentEntries,
                   newLaws>>

\* The ids are read, but JSON.parse of the index file throws: exit 2.
CheckIndexUnreadable ==
    /\ CheckOnly
    /\ kpc = "start"
    /\ localStore.exists
    /\ localStore.readable
    /\ ~indexReadable
    /\ localDocs' = localStore.ids
    /\ Exit(2, "index unreadable")
    /\ UNCHANGED <<nonOk, localStore, indexReadable, kq, recentEntries, newLaws>>

\* The ids and the index are read; fetchRecentEntries starts.
CheckOpen ==
    /\ CheckOnly
    /\ kpc = "start"
    /\ localStore.exists
    /\ localStore.readable
    /\ indexReadable
    /\ localDocs' = localStore.ids
    /\ kpc' = "queries"
    /\ UNCHANGED <<nonOk, localStore, indexReadable, kq, recentEntries, newLaws,
                   exitCode, failure>>

Querying == kpc = "queries" /\ kq <= NumKeyQueries

\* fetchLawList(1, query) returns 200: the entries of the page are pushed.
QueryOk(body) ==
    /\ CheckOnly
    /\ Querying
    /\ recentEntries' = recentEntries \o ParseLawList(body).entries
    /\ kq' = kq + 1
    /\ UNCHANGED <<nonOk, kpc, localStore, indexReadable, localDocs, newLaws,
                   exitCode, failure>>

\* Another status: the query adds nothing.
QueryNon200(st) ==
    /\ CheckOnly
    /\ Querying
    /\ kq' = kq + 1
    /\ nonOk' = nonOk + 1
    /\ UNCHANGED <<kpc, localStore, indexReadable, localDocs, recentEntries,
                   newLaws, exitCode, failure>>

\* fetchLawList rejects: main rejects, the catch exits 2.
QueryThrowsMutant ==
    /\ CheckOnly
    /\ Querying
    /\ kq' = kq + 1
    /\ failure' = "listing throws"
    /\ UNCHANGED <<kpc, localStore, indexReadable, localDocs, recentEntries,
                   nonOk, newLaws, exitCode>>
QueryThrows ==
    /\ CheckOnly
    /\ Querying
    /\ Exit(2, "listing throws")
    /\ UNCHANGED <<localStore, indexReadable, localDocs, kq, recentEntries,
                   nonOk, newLaws>>

\* The loop over recentEntries: one hit per entry whose derived id is not
\* among the local ids.
NewLaws(entries, ids) ==
    LET missing == SelectSeq(entries,
                       LAMBDA e : DocumentId(e.lawNumber, e.lawId) \notin ids)
    IN  [i \in 1..Len(missing) |->
            [document_id |-> DocumentId(missing[i].lawNumber, missing[i].lawId),
             title |-> missing[i].title,
             remote_updated |-> missing[i].enforcementDate]]

\* if (updatedLaws.length > 0 || newLaws.length > 0) process.exit(1);
\* otherwise main returns and the process ends with code 0.
ExitCode(hits) == IF Len(hits) > 0 THEN 1 ELSE 0

\* All queries are done: the entries are compared and the process exits.
CompareAndExit ==
    /\ CheckOnly
    /\ kpc = "queries"
    /\ kq > NumKeyQueries
    /\ newLaws' = NewLaws(recentEntries, localDocs)
    /\ exitCode' = ExitCode(newLaws')
    /\ kpc' = "exited"
    /\ UNCHANGED <<nonOk, localStore, indexReadable, localDocs, kq, recentEntries,
                   failure>>

CheckNext ==
    \/ CheckStoreMissing
    \/ CheckStoreUnreadable
    \/ CheckIndexUnreadable
    \/ CheckOpen
    \/ \E body \in CheckBodies : QueryOk(body)
    \/ \E st \in ListFailStatuses : QueryNon200(st)
    \/ QueryThrows
    \/ CompareAndExit

\* ------------------------------------------------------------------------
\* Specifications
\* ------------------------------------------------------------------------
FetchIdle ==
    /\ now = 0
    /\ lastRequestTime = 0
    /\ fpc = "off"
    /\ attempt = 0
    /\ maxRetries = 0
    /\ wakeAt = NoTime
    /\ result = NoResult
    /\ stamp = NoTime
    /\ prevStamp = NoTime
    /\ reqStarts = <<>>
    /\ responses = <<>>
    /\ waits = <<>>
    /\ ncalls = 0
    /\ lastSent = NoTime

\* ------------------------------------------------------------------------
\* Ingestion, build and update check, one after the other
\* ------------------------------------------------------------------------
\* Each of the three programs is one step here, made of the operators of the
\* parts above; upstream is fixed at the start and answers every request
\* with status 200 unless pipeAnswers says otherwise for a detail request.
\* The first two terms of KEY_LAW_QUERIES and of KEY_QUERIES (the first of
\* each differ, the second is the same), in Latin letters.
IngestTerms == <<"gaeinjeongbo bohobeop", "jeongbotongsinmang">>
CheckTerms == <<"gaeinjeongbo", "jeongbotongsinmang">>
Terms == {"gaeinjeongbo bohobeop", "jeongbotongsinmang", "gaeinjeongbo"}

\* The listings upstream answers a term with (page 1, fewer than 100 laws).
PipeListings == {<<>>, <<R1, R2>>, <<R2, R0>>, <<R3>>, <<R1b, R2>>}
DetailStatuses == {200, 404, 503}

\* The entries parsed from the listings of the terms, in the order of the terms.
RECURSIVE ListedFor(_, _)
ListedFor(terms, listing) ==
    IF terms = <<>> THEN <<>>
    ELSE LET l == listing[Head(terms)] IN
         ParseLawList([totalCnt |-> Len(l), law |-> l]).entries
             \o ListedFor(Tail(terms), listing)

IdsOf(index) == {index[k].lawId : k \in 1..Len(index)}
EntryOf(index, id) == index[CHOOSE k \in 1..Len(index) : index[k].lawId = id]

PipeStart ==
    /\ upstream \in [listing : [Terms -> PipeListings],
                     detail : [LawIds -> Bodies]]
    /\ pipePc = "start"
    /\ pipeIndex = <<>>
    /\ pipeAnswers = [id \in LawIds |-> 0]
    /\ pipeSeeds = [id \in LawIds |-> NoSeed]
    /\ pipeBuilt = FALSE
    /\ pipeStore = {}
    /\ pipeNew = <<>>
    /\ pipeExit = NoExit

PipeIdle ==
    /\ upstream = [listing |-> [t \in Terms |-> <<>>],
                   detail |-> [id \in LawIds |-> Unparsable]]
    /\ pipePc = "off"
    /\ pipeIndex = <<>>
    /\ pipeAnswers = [id \in LawIds |-> 0]
    /\ pipeSeeds = [id \in LawIds |-> NoSeed]
    /\ pipeBuilt = FALSE
    /\ pipeStore = {}
    /\ pipeNew = <<>>
    /\ pipeExit = NoExit

PipeOnly ==
    UNCHANGED <<fetchVars, overlapVars, discVars, contVars, dedVars, buildVars,
                checkVars, upstream>>

\* The ingestion: discoverLaws over its terms, then fetchAndParseLaws over
\* the whole index, into an empty seed directory.
PipeIngest(answers) ==
    LET index == Deduped(ListedFor(IngestTerms, upstream.listing)) IN
    /\ PipeOnly
    /\ pipePc = "start"
    /\ \A id \in LawIds : answers[id] = 0 <=> id \notin IdsOf(index)
    /\ pipeIndex' = index
    /\ pipeAnswers' = answers
    /\ pipeSeeds' =
          [id \in LawIds |->
              IF answers[id] = 200 THEN ParseLawXml(upstream.detail[id], id)
              ELSE IF answers[id] = 404 THEN MinimalSeed(EntryOf(index, id))
              ELSE NoSeed]
    /\ pipePc' = "ingested"
    /\ UNCHANGED <<pipeBuilt, pipeStore, pipeNew, pipeExit>>

Seeded == {id \in LawIds : pipeSeeds[id] # NoSeed}
\* insertDoc throws for some seed: its id is the id of another seed.
SomeDocInsertThrows ==
    \E a, b \in Seeded : a # b /\ pipeSeeds[a].id = pipeSeeds[b].id

\* The build over the seed files: every document is inserted.
PipeBuild ==
    /\ PipeOnly
    /\ pipePc = "ingested"
    /\ ~SomeDocInsertThrows
    /\ pipeStore' = {pipeSeeds[id].id : id \in Seeded}
    /\ pipeBuilt' = TRUE
    /\ pipePc' = "built"
    /\ UNCHANGED <<pipeIndex, pipeAnswers, pipeSeeds, pipeNew, pipeExit>>

\* The build aborts on a duplicate document id: the new store stays empty.
PipeBuildAborts ==
    /\ PipeOnly
    /\ pipePc = "ingested"
    /\ SomeDocInsertThrows
    /\ pipeStore' = {}
    /\ pipeBuilt' = FALSE
    /\ pipePc' = "built"
    /\ UNCHANGED <<pipeIndex, pipeAnswers, pipeSeeds, pipeNew, pipeExit>>

\* The update check: the ids of the store are read, the first page of each
\* of its terms is listed and every entry is compared.
PipeCheck ==
    /\ PipeOnly
    /\ pipePc = "built"
    /\ pipeNew' = NewLaws(ListedFor(CheckTerms, upstream.listing), pipeStore)
    /\ pipeExit' = ExitCode(pipeNew')
    /\ pipePc' = "checked"
    /\ UNCHANGED <<pipeIndex, pipeAnswers, pipeSeeds, pipeBuilt, pipeStore>>

PipeNext ==
    \/ \E answers \in [LawIds -> DetailStatuses \cup {0}] : PipeIngest(answers)
    \/ PipeBuild
    \/ PipeBuildAborts
    \/ PipeCheck

\* The parts that a specification does not run stay as they are.
OthersIdle(parts) ==
    /\ "fetch" \in parts \/ FetchIdle
    /\ "overlap" \in parts \/ OverlapIdle
    /\ "discovery" \in parts \/ DiscIdle
    /\ "content" \in parts \/ ContIdle
    /\ "dedupe" \in parts \/ DedIdle
    /\ "build" \in parts \/ BuildIdle
    /\ "check" \in parts \/ CheckIdle
    /\ "pipeline" \in parts \/ PipeIdle

FetchInit == FetchStart /\ OthersIdle({"fetch"})
SpecFetch == FetchInit /\ [][FetchNext]_vars

\* Calls that overlap: the first of them finds lastRequestTime = 0, as the
\* module sets it, and the clock far from it.
OverlapInit ==
    /\ OverlapStart
    /\ now = 2 * MIN_DELAY_MS
    /\ lastRequestTime = 0
    /\ fpc = "off"
    /\ attempt = 0
    /\ maxRetries = 0
    /\ wakeAt = NoTime
    /\ result = NoResult
    /\ stamp = NoTime
    /\ prevStamp = NoTime
    /\ reqStarts = <<>>
    /\ responses = <<>>
    /\ waits = <<>>
    /\ ncalls = 0
    /\ lastSent = NoTime
    /\ OthersIdle({"fetch", "overlap"})
SpecOverlap == OverlapInit /\ [][OverlapNext]_vars

PipeInit == PipeStart /\ OthersIdle({"pipeline"})
SpecPipeline == PipeInit /\ [][PipeNext]_vars

DiscInit == DiscStart /\ OthersIdle({"discovery"})
SpecDiscover == DiscInit /\ [][DiscNext]_vars

\* discoverLaws runs in one async function on the event loop: every awaited
\* listing request settles (with a status or a rejection) and the code after
\* it runs, so a step that is possible is eventually taken.
SpecDiscoverLive == DiscInit /\ [][DiscNext]_vars /\ WF_vars(DiscNext)

ContInit == ContStart /\ OthersIdle({"content"})
SpecContent == ContInit /\ [][ContNext]_vars

DedInit == DedStart /\ OthersIdle({"dedupe"})
SpecDedupe == DedInit /\ [][DedNext]_vars

BuildInit == BuildStart /\ OthersIdle({"build"})
SpecBuild == BuildInit /\ [][BuildNext]_vars

CheckInit == CheckStart /\ OthersIdle({"check"})
SpecCheck == CheckInit /\ [][CheckNext]_vars

\* ------------------------------------------------------------------------
\* Claims about the fetch client (checked under SpecFetch)
\* ------------------------------------------------------------------------
AllAttemptsRetryStatus ==
    /\ responses # <<>>
    /\ Len(responses) = Len(reqStarts)
    /\ \A i \in 1..Len(responses) : responses[i] = 429 \/ responses[i] >= 500

\* C1: a call whose every attempt received 429 or 5xx ends by raising, after
\* exactly maxRetries+1 attempts, and no call returns a result that carries
\* a 429 or 5xx status.
C1_ExhaustedRetriesRaise ==
    /\ (fpc \in {"returned", "thrown"} /\ AllAttemptsRetryStatus)
          => (fpc = "thrown" /\ Len(reqStarts) = maxRetries + 1)
    /\ fpc = "returned" => ~(result.status = 429 \/ result.status >= 500)

\* C2: with one call in flight at a time, every request of a call starts at
\* least 500 ms after the request start recorded (lastRequestTime) for the
\* call before it.
C2_MinGapBetweenCalls ==
    prevStamp # NoTime =>
        /\ stamp # NoTime => stamp >= prevStamp + 500
        /\ \A i \in 1..Len(reqStarts) : reqStarts[i] >= prevStamp + 500

\* A second call that had to sleep in rateLimit() and started its request
\* exactly 500 ms after the first call's recorded start.
C2_Witness ==
    /\ prevStamp # NoTime
    /\ reqStarts # <<>>
    /\ reqStarts[1] = prevStamp + 500
    /\ now - 500 < prevStamp + 500

\* C3: a 429/5xx response on attempt k < maxRetries is followed by a wait of
\* 2^(k+1) seconds and one more attempt; the waits of a call are strictly
\* increasing; a call makes at most maxRetries+1 attempts; a response with
\* any other status ends the call at that attempt, with no retry and no wait.
C3_RetryPolicy ==
    /\ Len(reqStarts) <= maxRetries + 1
    /\ Len(waits) <= maxRetries
    /\ Len(waits) <= Len(responses)
    /\ \A k \in 1..Len(waits) :
          /\ responses[k] = 429 \/ responses[k] >= 500
          /\ waits[k] = (2 ^ k) * 1000
          /\ k > 1 => waits[k] > waits[k - 1]
    /\ \A i \in 1..Len(responses) :
          /\ ((responses[i] = 429 \/ responses[i] >= 500) /\ i - 1 < maxRetries)
                => /\ Len(waits) >= i
                   /\ \/ fpc = "backoff" /\ Len(reqStarts) = i
                      \/ /\ Len(reqStarts) >= i + 1
                         /\ reqStarts[i + 1] >= reqStarts[i] + waits[i]
          /\ ~(responses[i] = 429 \/ responses[i] >= 500)
                => /\ i = Len(responses)
                   /\ fpc = "returned"
                   /\ result = [kind |-> "returned", status |-> responses[i]]
                   /\ Len(reqStarts) = i
                   /\ Len(waits) = i - 1

\* A call that was retried twice, with waits of 2 s and 4 s, and then ended
\* on a 404.
C3_Witness ==
    /\ fpc = "returned"
    /\ result.status = 404
    /\ waits = <<2000, 4000>>
    /\ Len(reqStarts) = 3

\* ------------------------------------------------------------------------
\* Claims about the discovery phase (checked under SpecDiscover)
\* ------------------------------------------------------------------------
\* Position of the first entry of allEntries with the given lawId.
FirstAt(lawId) ==
    CHOOSE i \in 1..Len(allEntries) :
        /\ allEntries[i].lawId = lawId
        /\ \A j \in 1..(i - 1) : allEntries[j].lawId # lawId

\* C4: the persisted index holds no entry with an empty internal id, holds
\* each non-empty internal id of the accumulated entries exactly once, and
\* the entry kept for an id is its first occurrence, in accumulation order.
C4_DedupFirstOccurrence ==
    dpc = "done" =>
        /\ \A k \in 1..Len(indexFile) : indexFile[k].lawId # ""
        /\ \A k1, k2 \in 1..Len(indexFile) :
              k1 # k2 => indexFile[k1].lawId # indexFile[k2].lawId
        /\ \A i \in 1..Len(allEntries) :
              allEntries[i].lawId # "" =>
                  \E k \in 1..Len(indexFile) :
                      indexFile[k].lawId = allEntries[i].lawId
        /\ \A k \in 1..Len(indexFile) :
              /\ \E i \in 1..Len(allEntries) :
                    allEntries[i].lawId = indexFile[k].lawId
              /\ indexFile[k] = allEntries[FirstAt(indexFile[k].lawId)]
        /\ \A k1, k2 \in 1..Len(indexFile) :
              k1 < k2 => FirstAt(indexFile[k1].lawId) < FirstAt(indexFile[k2].lawId)

\* An index written from entries among which one has no id and two share an
\* id with different content.
C4_Witness ==
    /\ dpc = "done"
    /\ Len(indexFile) >= 2
    /\ \E i \in 1..Len(allEntries) : allEntries[i].lawId = ""
    /\ \E i, j \in 1..Len(allEntries) :
          /\ i < j
          /\ allEntries[i].lawId = allEntries[j].lawId
          /\ allEntries[i] # allEntries[j]

\* C5: hasNextPage of a parsed page is true iff the page holds at least 100
\* entries and the number of entries seen so far for the query is below
\* totalCount; so no further page of a query is requested once the entries
\* seen have reached totalCount.
C5_HasNextPageCumulative ==
    /\ lastList.n >= 0 =>
          (lastList.hasNextPage <=>
              (lastList.n >= 100 /\ cumulative < lastList.totalCount))
    /\ (dpc = "list" /\ page > 1) => cumulative < lastList.totalCount

\* ------------------------------------------------------------------------
\* Claims about the content phase (checked under SpecContent)
\* ------------------------------------------------------------------------
\* The step handles the entry laws[pos].
EntryStep == last' # last

\* C6: for an entry without seed file whose content fetch returns 404, the
\* run writes a stub seed with id "act-" + (lawNumber || lawId), the entry's
\* title and dates, no provisions and status in_force, and raises failed and
\* processed by one each; skipped and the provision total stay.
C6_Stub404 ==
    [][(EntryStep /\ seedFiles[Law.lawId] = NoSeed /\ last'.upstream = 404) =>
          /\ seedFiles'[Law.lawId].id =
                "act-" \o (IF Law.lawNumber # "" THEN Law.lawNumber ELSE Law.lawId)
          /\ seedFiles'[Law.lawId].title = Law.title
          /\ seedFiles'[Law.lawId].issued_date = Law.promulgationDate
          /\ seedFiles'[Law.lawId].in_force_date = Law.enforcementDate
          /\ seedFiles'[Law.lawId].provisions = <<>>
          /\ seedFiles'[Law.lawId].status = "in_force"
          /\ failed' = failed + 1
          /\ processed' = processed + 1
          /\ skipped' = skipped
          /\ totalProvisions' = totalProvisions]_vars

\* A stub was just written for an entry that has a law number.
C6_Witness ==
    /\ last.outcome = "stub"
    /\ last.upstream = 404
    /\ seedFiles[last.lawId].id = "act-N7"
    /\ seedFiles[last.lawId].provisions = <<>>
    /\ failed >= 1

\* C7: for an entry whose seed file exists when the entry is reached, the run
\* makes no content fetch call, leaves every seed file as it is and raises
\* skipped and processed by one each; failed stays.
C7_SkipExistingSeed ==
    [][(EntryStep /\ seedFiles[Law.lawId] # NoSeed) =>
          /\ fetchCalls' = fetchCalls
          /\ seedFiles' = seedFiles
          /\ skipped' = skipped + 1
          /\ processed' = processed + 1
          /\ failed' = failed]_vars

\* The first entry of a later run was skipped over its full seed.
C7_Witness ==
    /\ last.outcome = "skip"
    /\ last.lawId \notin stubs
    /\ fetchCalls = 0
    /\ skipped = 1
    /\ processed = 1

\* C8: once a seed file is written, full record or stub, no step of any
\* later or interrupted run changes or replaces it.
C8_SeedImmutable ==
    [][\A id \in LawIds :
          seedFiles[id] # NoSeed => seedFiles'[id] = seedFiles[id]]_vars

\* A second run reached the full seed of an entry for which upstream now
\* answers 404, while another entry still has no seed file.
C8_Witness ==
    /\ last.run = 2
    /\ last.outcome = "skip"
    /\ last.lawId \notin stubs
    /\ last.upstream = 404
    /\ \E id \in LawIds : seedFiles[id] = NoSeed

\* C9 as stated: when a run reaches an entry whose seed is a 404 stub and
\* upstream now answers 200 for it, the run fetches it and the full record
\* replaces the stub.
C9_StubReplaced ==
    [][(EntryStep /\ Law.lawId \in stubs /\ last'.upstream = 200) =>
          /\ fetchCalls' = fetchCalls + 1
          /\ Law.lawId \notin stubs'
          /\ seedFiles'[Law.lawId] # seedFiles[Law.lawId]]_vars

\* C9 as amended: when a run reaches an entry whose seed is a 404 stub, it
\* skips the entry, whatever upstream answers now: no fetch, and the stub
\* stays the one seed file of the entry.
C9_StubKept ==
    [][(EntryStep /\ Law.lawId \in stubs) =>
          /\ last'.outcome = "skip"
          /\ fetchCalls' = fetchCalls
          /\ stubs' = stubs
          /\ seedFiles'[Law.lawId] = seedFiles[Law.lawId]
          /\ seedFiles'[Law.lawId].provisions = <<>>]_vars

\* A later run skipped a stub although upstream answers 200 for the entry.
C9_Witness ==
    /\ last.run = 2
    /\ last.outcome = "skip"
    /\ last.lawId \in stubs
    /\ last.upstream = 200

\* ------------------------------------------------------------------------
\* Claims about provision deduplication (checked under SpecDedupe)
\* ------------------------------------------------------------------------
\* Length of the whitespace-normalized content of the j-th provision.
NormLen(j) == Len(NormalizeWhitespace(provisions[j].content))

\* C10: at every point of the loop, and so at its end, the provision kept
\* for each distinct trimmed ref is, of the provisions handled so far that
\* share the ref, the one with the longest whitespace-normalized content and
\* among several of that length the first one.
C10_LongestFirstWins ==
    LET handled == 1..(di - 1)
        ref == [j \in handled |-> Trim(provisions[j].provision_ref)]
        len == [j \in handled |-> NormLen(j)]
        \* w wins among the provisions sharing its ref
        Wins(w) ==
            \A j \in handled :
                ref[j] = ref[w] =>
                    \/ len[j] < len[w]
                    \/ len[j] = len[w] /\ w <= j
    IN  \A w \in handled :
            Wins(w) =>
                \E k \in 1..Len(byRef) :
                    /\ byRef[k].provision_ref = ref[w]
                    /\ byRef[k].section = w
                    /\ byRef[k].content = provisions[w].content

\* Three provisions share a ref after trimming; the second and the third have
\* the longest normalized content, and the second is kept.
C10_Witness ==
    /\ Len(provisions) = 3
    /\ di = 4
    /\ Len(byRef) = 1
    /\ NormLen(1) < NormLen(2)
    /\ NormLen(2) = NormLen(3)
    /\ provisions[2].content # provisions[3].content
    /\ byRef[1].section = 2

\* ------------------------------------------------------------------------
\* Further claims about the fetch client (checked under SpecFetch)
\* ------------------------------------------------------------------------
\* C19 as stated: lastRequestTime is updated by every HTTP request, retries
\* included: after a call that retried, it equals the start time of the
\* call's last attempt. (rateLimit() runs once, before the loop, so the code
\* leaves it at the start of the first attempt.)
C19_StampFollowsRetries ==
    (fpc = "returned" /\ Len(reqStarts) > 1) =>
        lastRequestTime = reqStarts[Len(reqStarts)]

\* ------------------------------------------------------------------------
\* Further claims about the content phase (checked under SpecContent)
\* ------------------------------------------------------------------------
\* C20: when the content fetch for an entry returns a non-200 status other
\* than 404, or the fetch or the parse throws, the step writes no seed file
\* and raises failed by one; and when the next run reaches an entry that the
\* run before counted failed in this way, it does not skip it but fetches it.
C20_FailureRetriedNextRun ==
    [][EntryStep =>
          /\ (/\ seedFiles[Law.lawId] = NoSeed
              /\ \/ last'.upstream \notin {200, 404}
                 \/ last'.outcome = "thrown")
              => /\ seedFiles' = seedFiles
                 /\ failed' = failed + 1
          /\ (runs > 1 /\ failedIn[Law.lawId] = runs - 1)
              => /\ fetchCalls' = fetchCalls + 1
                 /\ skipped' = skipped
                 /\ last'.outcome # "skip"]_vars

\* The second run fetched an entry again whose fetch failed in the first run,
\* and this time wrote its full seed.
C20_Witness ==
    /\ last.run = 2
    /\ failedIn[last.lawId] = 1
    /\ last.outcome = "full"
    /\ fetchCalls >= 1
    /\ seedFiles[last.lawId] # NoSeed

\* ------------------------------------------------------------------------
\* Further claims about the discovery phase (checked under SpecDiscover)
\* ------------------------------------------------------------------------
\* C16 as stated: a listing request that fails during the discovery phase
\* never aborts the run: the run goes on with the next term and never ends
\* in main's catch block (exit 1). (A listing request that rejects is not
\* caught in discoverLaws, so the code does end there.)
C16_UpstreamFailureNeverAborts == dpc # "fatal"

\* ------------------------------------------------------------------------
\* Further claims about provision deduplication (checked under SpecDedupe)
\* ------------------------------------------------------------------------
\* The loop of dedupeProvisions is over: Array.from(byRef.values()) is returned.
DedupeReturned == di = Len(provisions) + 1

\* C11: in what dedupeProvisions returns, every provision_ref occurs exactly
\* once, and the refs returned are exactly the distinct trimmed refs of the
\* input: no ref of the input is left without a winner, so the rows of one
\* document never collide on (document_id, provision_ref).
C11_RefsUniqueAndComplete ==
    DedupeReturned =>
        /\ \A k, m \in 1..Len(byRef) :
              byRef[k].provision_ref = byRef[m].provision_ref => k = m
        /\ {byRef[k].provision_ref : k \in 1..Len(byRef)}
              = {Trim(provisions[j].provision_ref) : j \in 1..Len(provisions)}
        /\ \A k \in 1..Len(byRef) :
              \E j \in 1..Len(provisions) :
                  /\ Trim(provisions[j].provision_ref) = byRef[k].provision_ref
                  /\ provisions[j].content = byRef[k].content

\* Three provisions, two of which share a ref once trimmed, were reduced to
\* two.
C11_Witness ==
    /\ DedupeReturned
    /\ Len(provisions) = 3
    /\ Len(byRef) = 2
    /\ \E i, j \in 1..3 :
          /\ provisions[i].provision_ref # provisions[j].provision_ref
          /\ Trim(provisions[i].provision_ref) = Trim(provisions[j].provision_ref)

\* ------------------------------------------------------------------------
\* Claims about the index builder (checked under SpecBuild)
\* ------------------------------------------------------------------------
\* C12 as stated: if reading or parsing a seed file, or a document,
\* provision or reference insert, fails during the load, then no document,
\* provision or reference row of that load is committed. (A throwing
\* reference insert is caught inside the loop, so the code commits the rest.)
C12_LoadAtomic ==
    faults # {} =>
        /\ db.docs = <<>>
        /\ db.provs = <<>>
        /\ db.refs = <<>>

\* The build returned after loading its seed files.
BuildLoaded == bpc = "done" /\ Len(seedDir.files) > 0

\* The document id the rule "act-" + (lawNumber || sourceId) gives the seed
\* file named <sourceId>.json.
RuleId(file) ==
    "act-" \o (IF file.seed.law_number # "" THEN file.seed.law_number
               ELSE file.name)
\* The distinct trimmed provision refs of a seed file.
SeedRefs(file) ==
    {Trim(file.seed.provisions[j].provision_ref) :
        j \in 1..Len(file.seed.provisions)}

\* C13: after a successful build, every seed file has exactly one
\* legal_documents row, whose id is "act-" + (lawNumber || sourceId), and
\* exactly one legal_provisions row per provision surviving deduplication
\* (one per distinct trimmed ref), each carrying that document id; the
\* store holds no other document or provision row.
C13_SeedRoundTrip ==
    BuildLoaded =>
        /\ Len(db.docs) = Len(seedDir.files)
        /\ \A i \in 1..Len(seedDir.files) :
              LET file == seedDir.files[i]
                  rows == {k \in 1..Len(db.provs) :
                              db.provs[k].document_id = RuleId(file)}
              IN  /\ Cardinality({k \in 1..Len(db.docs) :
                                     db.docs[k].id = RuleId(file)}) = 1
                  /\ Cardinality(rows) = Cardinality(SeedRefs(file))
                  /\ \A ref \in SeedRefs(file) :
                        Cardinality({k \in rows :
                                        db.provs[k].provision_ref = ref}) = 1
        /\ \A k \in 1..Len(db.provs) :
              \E i \in 1..Len(seedDir.files) :
                  db.provs[k].document_id = RuleId(seedDir.files[i])

\* A build loaded the parsed seed 201.json, whose three provisions share two
\* refs, next to another seed: one row act-N7 and two provision rows for it.
C13_Witness ==
    /\ BuildLoaded
    /\ Len(db.docs) >= 2
    /\ \E i \in 1..Len(seedDir.files) :
          /\ seedDir.files[i].name = "201"
          /\ Len(seedDir.files[i].seed.provisions) = 3
    /\ Cardinality({k \in 1..Len(db.provs) :
                       db.provs[k].document_id = "act-N7"}) = 2

\* C17: whenever a build completes, the statements run on the store were,
\* in this order: WAL on, schema, then metadata, then journal mode DELETE,
\* then ANALYZE, then VACUUM, then close; the store is left closed, with its
\* metadata, in journal mode DELETE and not WAL.
C17_FinalizationOrder ==
    bpc = "done" =>
        /\ ops = <<"journal_mode = WAL", "schema", "metadata",
                   "journal_mode = DELETE", "ANALYZE", "VACUUM", "close">>
        /\ db.journal = "delete"
        /\ db.meta
        /\ ~db.open

\* A build over seed files completed, after its load committed rows.
C17_Witness ==
    /\ bpc = "done"
    /\ db.journal = "delete"
    /\ Len(ops) = 7
    /\ Len(db.docs) > 0

\* C18 as stated: after a successful build, a loaded document has a
\* 'references' row pointing to 'regulation:2016/679' exactly when its Korean
\* or English title contains the marker, documents without provisions
\* included. (The code links only after the check for provisions, so a
\* matching document without provisions gets no row.)
C18_AutoLinkEveryMatch ==
    (BuildLoaded /\ faults = {}) =>
        \A k \in 1..Len(db.docs) :
            TitleMatches(db.docs[k]) <=>
                \E r \in 1..Len(db.refs) :
                    /\ db.refs[r].document_id = db.docs[k].id
                    /\ db.refs[r].eu_document_id = "regulation:2016/679"
                    /\ db.refs[r].reference_type = "references"

\* ------------------------------------------------------------------------
\* Claims about the update checker (checked under SpecCheck)
\* ------------------------------------------------------------------------
\* The ids "act-" + (lawNumber || lawId) of the discovered entries.
DiscoveredIds ==
    {"act-" \o (IF recentEntries[i].lawNumber # ""
                THEN recentEntries[i].lawNumber ELSE recentEntries[i].lawId) :
        i \in 1..Len(recentEntries)}

\* C14 as stated: when the check ends without failing, the documents
\* reported as new are exactly the discovered ones whose derived id is not
\* among the local ids, each of them counted once, and the exit code is 1
\* iff at least one is reported, 0 otherwise. (The code reports one hit per
\* discovered entry, so a document found by two queries is counted twice.)
C14_NewExactlyOnce ==
    (kpc = "exited" /\ failure = "none") =>
        /\ {newLaws[i].document_id : i \in 1..Len(newLaws)}
              = DiscoveredIds \ localDocs
        /\ \A i, j \in 1..Len(newLaws) :
              newLaws[i].document_id = newLaws[j].document_id => i = j
        /\ exitCode = IF newLaws # <<>> THEN 1 ELSE 0

\* C15: the checker ends with exactly one of the exit codes 0, 1, 2, and
\* whenever the check itself failed (the store file is missing, the store
\* cannot be read, or a listing request throws) it ends at once with exit
\* code 2, never 0 or 1.
C15_FailureExitsTwo ==
    /\ exitCode \in {NoExit, 0, 1, 2}
    /\ (kpc = "exited") <=> (exitCode # NoExit)
    /\ failure # "none" => (kpc = "exited" /\ exitCode = 2)
    /\ (kpc = "exited" /\ (~localStore.exists \/ ~localStore.readable))
          => exitCode = 2
    /\ (kpc = "exited" /\ exitCode = 2) => failure # "none"

\* The second listing request threw after the first had found documents
\* that the store does not have: exit code 2.
C15_Witness ==
    /\ kpc = "exited"
    /\ failure = "listing throws"
    /\ exitCode = 2
    /\ kq = 2
    /\ DiscoveredIds \ localDocs # {}

\* ------------------------------------------------------------------------
\* Counter accounting of the content phase (checked under SpecContent)
\* ------------------------------------------------------------------------
\* Number of entries the current run has dealt with in the given ways.
Count(ways) == Cardinality({id \in LawIds : outcomes[id] \in ways})

\* The part of C21 about the counters: each entry handled raised processed
\* by one, processed = skipped + failed + (full seeds written by this run),
\* and a run that reached its end has processed = number of entries selected.
CountersAddUp ==
    /\ processed = pos - 1
    /\ processed = Count({"skip", "stub", "error", "thrown", "full"})
    /\ skipped = Count({"skip"})
    /\ failed = Count({"stub", "error", "thrown"})
    /\ processed = skipped + failed + Count({"full"})
    /\ cpc = "finished" => processed = Len(laws)

\* C21 as stated: the counters add up, and every entry handled by the run
\* that is left without a full seed (written by the run or already present)
\* has raised failed. (An entry whose seed file is a stub of an earlier run
\* is skipped: it raises skipped, not failed.)
C21_NoFullSeedCountsFailed ==
    /\ CountersAddUp
    /\ \A i \in 1..(pos - 1) :
          (seedFiles[laws[i].lawId] = NoSeed \/ laws[i].lawId \in stubs) =>
              outcomes[laws[i].lawId] \in {"stub", "error", "thrown"}

\* C21, amended: the counters add up; every entry handled by the run that is
\* left without any seed file has raised failed; and an entry that is left
\* with a stub either raised failed (the run wrote the stub) or raised
\* skipped (the stub was already there).
C21_CounterAccounting ==
    /\ CountersAddUp
    /\ \A i \in 1..(pos - 1) :
          LET id == laws[i].lawId IN
          /\ seedFiles[id] = NoSeed => outcomes[id] \in {"error", "thrown"}
          /\ id \in stubs => outcomes[id] \in {"stub", "skip"}
          /\ outcomes[id] = "skip" => seedFiles[id] # NoSeed

\* A second run over three entries reached its end: it skipped a stub left by
\* the first run, wrote a full seed and counted a failure without seed.
C21_Witness ==
    /\ cpc = "finished"
    /\ runs = 2
    /\ processed = 3
    /\ \E id \in stubs : outcomes[id] = "skip"
    /\ Count({"full"}) = 1
    /\ Count({"error", "thrown"}) = 1

\* ------------------------------------------------------------------------
\* Termination of the discovery phase (checked under SpecDiscoverLive)
\* ------------------------------------------------------------------------
\* The page requested for the current term is one of the pages 1..10.
PageCapHolds == dpc = "list" => (page \in 1..MaxPage /\ qi \in 1..NumQueries)

\* C22 as stated: for each term only pages 1..10 are requested, and for
\* every upstream behaviour the discovery phase eventually reaches the
\* deduplication step. (A listing request that rejects ends discoverLaws
\* before the deduplication step is reached.)
C22_DiscoveryReachesDedup == []PageCapHolds /\ <>(dpc \in {"dedupe", "done"})

\* C23 as stated: when dedupeProvisions returns, the provision kept for a ref
\* has a title whenever one of the provisions of the input with that ref had
\* a title, whether the title was missing on the kept provision or on a
\* discarded one. (The code takes the title over only when the incoming
\* provision replaces the entry; an entry that is kept never gets the title
\* of a provision it wins against.)
C23_TitleBackfilled ==
    DedupeReturned =>
        \A k \in 1..Len(byRef) :
            (\E j \in 1..Len(provisions) :
                /\ Trim(provisions[j].provision_ref) = byRef[k].provision_ref
                /\ provisions[j].title.defined)
            => byRef[k].title.defined

\* ------------------------------------------------------------------------
\* Flattening of an article into one provision (checked under SpecContent)
\* ------------------------------------------------------------------------
\* C24 as stated: when a 200 body is parsed and saved, the content stored for
\* each provision is the multi-line string fullContent of its article, with
\* the line breaks between article content, paragraphs and items still in
\* it. (The stored content is that string with every run of whitespace,
\* line breaks included, replaced by one space.)
C24_ContentKeepsLineBreaks ==
    [][\A resp \in Responses :
          Content200(resp) =>
              LET kept == SelectSeq(resp.body.articles, ArticleKept)
                  stored == seedFiles'[Law.lawId].provisions
              IN  /\ Len(stored) = Len(kept)
                  /\ \A i \in 1..Len(kept) :
                        stored[i].content = FullContent(kept[i])]_vars

\* ------------------------------------------------------------------------
\* Spacing of all requests, retries included (checked under SpecFetch)
\* ------------------------------------------------------------------------
\* An HTTP request is sent in this step.
RequestSent == fpc' = "request" /\ fpc # "request"

\* C26 as stated: with calls made one after another, every HTTP request the
\* client sends, a retry attempt or the first attempt of a call, starts at
\* least 500 ms after the request sent before it. (The throttle measures
\* from the first attempt of the call before; after a call that retried, the
\* next call starts its request at once, however recent that call's last
\* attempt is.)
C26_EveryRequestSpaced ==
    [][(RequestSent /\ lastSent # NoTime) => now' >= lastSent + MIN_DELAY_MS]_vars

\* ------------------------------------------------------------------------
\* Calls that overlap in the throttle (checked under SpecOverlap)
\* ------------------------------------------------------------------------
RequestStarted(c) == tpc[c] = "request"
\* Call c2 entered rateLimit() while call c1 was waiting in it.
EnteredWhileWaiting(c1, c2) ==
    /\ c1 # c2
    /\ RequestStarted(c1)
    /\ RequestStarted(c2)
    /\ tenter[c1] <= tenter[c2]
    /\ tenter[c2] < tsent[c1]
Apart(t1, t2) == t1 - t2 >= MIN_DELAY_MS \/ t2 - t1 >= MIN_DELAY_MS

\* C25 as stated: when a call enters the throttle while another is still
\* waiting in it, the HTTP requests of the two start at least 500 ms apart.
\* (Both calls read the same lastRequestTime, set timers for the same
\* deadline and send their requests at the same instant.)
C25_OverlappingCallsSpaced ==
    \A c1, c2 \in Callers :
        EnteredWhileWaiting(c1, c2) => Apart(tsent[c1], tsent[c2])

\* C25, amended: a call that overlaps with others still sends its request at
\* least 500 ms after the request time it read from lastRequestTime on
\* entering the throttle, and not before its own entry; nothing is
\* guaranteed between the requests of two calls that overlap.
C25_SpacedFromRecordedRequest ==
    \A c \in Callers :
        RequestStarted(c) =>
            /\ tsent[c] >= tbase[c] + MIN_DELAY_MS
            /\ tsent[c] >= tenter[c]

\* Two calls overlapped in the throttle and sent their requests at the same
\* instant, 500 ms after the request recorded before them.
C25_Witness ==
    \E c1, c2 \in Callers :
        /\ EnteredWhileWaiting(c1, c2)
        /\ tsent[c1] = tsent[c2]
        /\ tsent[c1] = tbase[c1] + MIN_DELAY_MS
        /\ tbase[c2] = tbase[c1]

\* ------------------------------------------------------------------------
\* Document ids of the seeds of one ingestion (checked under SpecContent)
\* ------------------------------------------------------------------------
\* C27 as stated: two entries of the index of a run (their lawIds differ)
\* that both have a seed file have seed files with different document ids.
\* (The id is taken from the law number whenever there is one, and two
\* entries with different lawIds can carry the same law number.)
C27_DistinctDocumentIds ==
    \A i, j \in 1..Len(laws) :
        (/\ i # j
         /\ seedFiles[laws[i].lawId] # NoSeed
         /\ seedFiles[laws[j].lawId] # NoSeed)
        => seedFiles[laws[i].lawId].id # seedFiles[laws[j].lawId].id

\* ------------------------------------------------------------------------
\* The store after a rebuild that aborted (checked under SpecBuild)
\* ------------------------------------------------------------------------
BuildAborted == bpc = "aborted"

\* C28 as stated: after a rebuild that aborted, the store file that existed
\* before the rebuild is still there with the documents and provisions it
\* had. (buildDatabase unlinks the existing file before it opens the new
\* one, so the old rows are gone whatever happens later.)
C28_FailedRebuildKeepsOld ==
    (BuildAborted /\ before.exists) =>
        /\ db.exists
        /\ db.docs = before.docs
        /\ db.provs = before.provs

\* C28, amended: after a rebuild that aborted, the store file is the new one
\* the rebuild created: it has the schema and no document, provision,
\* reference, EU document or metadata row (nothing of the aborted load, and
\* nothing of the store that was there before), and it was not finalized.
C28_FailedRebuildLeavesEmptyStore ==
    BuildAborted =>
        /\ db.exists
        /\ db.docs = <<>>
        /\ db.provs = <<>>
        /\ db.refs = <<>>
        /\ db.euDocs = {}
        /\ ~db.meta
        /\ db.journal = "wal"
        /\ before.exists => db.docs # before.docs

\* A rebuild over an existing store aborted at its second seed file, after
\* the document of the first had been inserted in the transaction.
C28_Witness ==
    /\ BuildAborted
    /\ before = OldStore
    /\ bi = 2
    /\ faults # {}

\* ------------------------------------------------------------------------
\* Exit 0 of the update checker (checked under SpecCheck)
\* ------------------------------------------------------------------------
\* C30 as stated: the checker exits 0 only when every one of its listing
\* queries came back with status 200 and was compared; a query that came back
\* with another status is never taken for 'no change'. (fetchRecentEntries
\* skips such a query without a trace, so exit 0 is reached all the same.)
C30_ExitZeroMeansCompleteCheck ==
    exitCode = 0 => (nonOk = 0 /\ kq = NumKeyQueries + 1)

\* ------------------------------------------------------------------------
\* Ingestion, build and check in a row (checked under SpecPipeline)
\* ------------------------------------------------------------------------
\* Every entry of the index was fetched with status 200 and parsed, and the
\* build that followed ended without exception.
CleanIngestAndBuild ==
    /\ pipeBuilt
    /\ \A id \in IdsOf(pipeIndex) : pipeAnswers[id] = 200

\* C29 as stated: after an ingestion in which every discovered entry was
\* fetched and parsed and a successful build, the check against the same
\* upstream finds no new document and exits 0. (The check lists other terms
\* than the ingestion, derives the id from the listing entry while the store
\* has the id derived from the law document, and compares entries without
\* lawId, which the ingestion drops.)
C29_CheckAfterIngestIsQuiet ==
    (pipePc = "checked" /\ CleanIngestAndBuild) =>
        (pipeNew = <<>> /\ pipeExit = 0)

====
